---- MODULE Spec2Model ----
(***************************************************************************)
(* Corpus-scale approximate substring search (code-llm-contamination).     *)
(*                                                                         *)
(* The module models                                                       *)
(*   - the match scorers of novelty_score/utils/fuzzy_matching.py,         *)
(*   - the chunk builder of novelty_score/utils/chunk_processing.py,       *)
(*   - the two parallel search coordinators of the same file, and          *)
(*   - the cross-shard driver novelty_score/fuzzy_match_main.py.           *)
(*                                                                         *)
(* A Python str is a sequence of one-character strings; None is the        *)
(* one-element sequence NONE, which no text over Alphabet equals.          *)
(***************************************************************************)
EXTENDS Integers, Sequences, FiniteSets, TLC

VARIABLES
    \* ---- scorer harness (SpecScore) ----
    sc_in,        \* [test_str, chunk]: the pair handed to the scorers
    sc_fast,      \* result of fast_fuzzy_match, or UNSET
    sc_slow,      \* result of slow_fuzzy_match, or UNSET
    \* ---- chunk builder harness (SpecChunks) ----
    cb_calls,     \* how many shards the harness has chunked
    cb_max,       \* max_corpus_chunks (0 models None)
    cb_start,     \* start_idx of the driver
    cb_last,      \* [docs, start, max, chunks, ends]: the last call and what it returned
    cb_all,       \* every chunk index assigned so far, in the order assigned
    \* ---- one run of fuzzy_match_main.main (Spec) ----
    test_data,         \* [single, strs]: a str (single-query mode) or a list of str
    corpus,            \* the documents of each corpus file, in CORPUS_FILES order
    num_chunks_to_read,\* --max_chunks (0 models None)
    detailed_results,  \* --detailed_results
    pc,                \* position of the coordinating process
    file_idx,          \* 1-based position of the for loop over corpus_files
    start_idx,         \* main's start_idx
    corpus_chunks,     \* the chunks of the current corpus file
    ci,                \* 1-based position of the batch loop over corpus_chunks
    all_results,       \* main's all_results: test string -> best result
    results,           \* the results dict of the search call in progress
    futures,           \* <<test_str, chunk index>> -> task state of the executor
    yielded,           \* the futures as_completed has already yielded
    regions,           \* every SharedMemory region created, in creation order
    err,               \* the exception that ended the run, or "none"
    output,            \* what save_fuzzy_match_results wrote
    submitted,         \* history: every <<test_str, chunk index>> ever submitted
    observed,          \* history: every <<test_str, chunk index, result>> collected
    \* ---- one call of main.py's search_test_strings_in_corpus (SpecMain) ----
    mp_tests,          \* test_strings
    mp_chunks,         \* corpus_chunks: the chunk texts
    mp_pc,             \* position of the calling process
    mp_ci,             \* 1-based position of the loop over corpus_chunks
    mp_shm,            \* the shared memory region: [linked, buf]
    mp_results,        \* chunk_results of pool.map, by task position, UNSET if pending
    mp_overall,        \* overall_results
    mp_scored,         \* history: every <<task position, chunk position>> scored
    \* ---- the two searches of fuzzy_match_main.py on the same chunks (SpecTop) ----
    tp_tests,          \* test_strings of the batch search; the first is the single query
    tp_chunks,         \* corpus_chunks: [idx, text]
    tp_spc,            \* position of search_test_string_in_chunks
    tp_scollected,     \* chunk positions whose future as_completed has yielded
    tp_sres,           \* its best_match, best_score and chunk_results
    tp_bpc,            \* position of search_multiple_test_strings_in_chunks
    tp_bci,            \* 1-based position of its loop over corpus_chunks
    tp_bcollected,     \* test positions collected for the current chunk
    tp_bres,           \* its overall_results
    \* ---- two concurrent batch searches on one host (SpecTwo) ----
    tw_in,             \* per run: test_strings and corpus_chunks
    tw_pc,             \* per run: position of the calling process
    tw_ci,             \* per run: 1-based position of the loop over corpus_chunks
    tw_futures,        \* per run: the tasks of the current chunk, by test position
    tw_collected,      \* per run: test positions as_completed has yielded
    tw_results,        \* per run: results
    tw_err,            \* per run: the exception that ended it, "none" if none
    tw_shm,            \* what the host holds under SHM_NAME: [linked, owner, chunk, buf]
    tw_reads           \* history: <<run of the worker, run that published what it read>>

score_vars == <<sc_in, sc_fast, sc_slow>>
chunk_vars == <<cb_calls, cb_max, cb_start, cb_last, cb_all>>
run_vars == <<test_data, corpus, num_chunks_to_read, detailed_results, pc, file_idx,
              start_idx, corpus_chunks, ci, all_results, results, futures, yielded,
              regions, err, output, submitted, observed>>
main_vars == <<mp_tests, mp_chunks, mp_pc, mp_ci, mp_shm, mp_results, mp_overall, mp_scored>>
top_vars == <<tp_tests, tp_chunks, tp_spc, tp_scollected, tp_sres, tp_bpc, tp_bci,
              tp_bcollected, tp_bres>>
two_vars == <<tw_in, tw_pc, tw_ci, tw_futures, tw_collected, tw_results, tw_err, tw_shm,
              tw_reads>>
vars == <<score_vars, chunk_vars, run_vars, main_vars, top_vars, two_vars>>

-----------------------------------------------------------------------------
(* Bounds of the model and constants of the program *)

\* longest test string handed to the scorers
MaxQueryLen == 3
\* longest chunk handed to the scorers
MaxChunkLen == 4
\* longest document of a shard handed to the chunk builder
MaxDocLen == 2
\* most documents of one shard handed to the chunk builder
MaxDocs == 3
\* most shards chunked in one run of the chunk builder harness
MaxCbShards == 2
\* largest max_corpus_chunks handed to the chunk builder
MaxChunksArg == 2
\* most corpus files of one run of main
MaxShards == 2
\* largest --max_chunks of a run of main
MaxRunChunksArg == 1
\* CHUNK_SIZE (constants.py:17 has 2_000_000), scaled to the documents of the model
CHUNK_SIZE == 2
\* constants.py:19
FUZZ_THRESHOLD == 60
\* constants.py:20, STRIDE_PERCENT = 0.05, in percent
STRIDE_PERCENT == 5
\* constants.py:18
MAX_WORKERS == 8

Alphabet == {"a", "b"}

NONE == <<"None">>
\* a corpus file that cannot be read or parsed
UNREADABLE == << <<"unreadable">> >>
\* the scorers' result before they ran
UNSET == [match |-> NONE, score |-> -1]
\* chunk_results = None (detailed_results is off)
NO_HISTORY == << [chunk_index |-> -1, closest_solution |-> NONE, score |-> -1] >>

-----------------------------------------------------------------------------
(* Text helpers *)

\* F applied to the value of e, e being evaluated once
Bind(e, F(_)) == CHOOSE r \in {F(x) : x \in {e}} : TRUE

Max(a, b) == Bind(<<a, b>>, LAMBDA p : IF p[1] >= p[2] THEN p[1] ELSE p[2])
Min(a, b) == Bind(<<a, b>>, LAMBDA p : IF p[1] <= p[2] THEN p[1] ELSE p[2])

\* all texts over Alphabet of length at most n
Texts(n) == UNION {[1..k -> Alphabet] : k \in 0..n}

\* Python slice s[lo:hi] with 0 <= lo (0-based, hi exclusive, clipped at len(s))
Slice(s, lo, hi) ==
    LET h == Min(hi, Len(s))
    IN  IF lo >= h THEN <<>> ELSE SubSeq(s, lo + 1, h)

CharSet(s) == {s[i] : i \in 1..Len(s)}

-----------------------------------------------------------------------------
(* rapidfuzz.fuzz, as called by the scorers.  A float score is held as the  *)
(* rational n/d (d > 0) its double approximates, 100 * 2*LCS / (len1+len2). *)

RECURSIVE LCS(_, _)
\* length of a longest common subsequence (the Indel similarity is 2 * LCS)
LCS(s, t) ==
    IF s = <<>> \/ t = <<>> \/ CharSet(s) \cap CharSet(t) = {} THEN 0
    ELSE IF Head(s) = Head(t) THEN 1 + LCS(Tail(s), Tail(t))
    ELSE Max(LCS(Tail(s), t), LCS(s, Tail(t)))

\* fuzz.ratio(s1, s2): 100 for two empty texts, else the double
\* (1.0 - dist / maximum) * 100 with dist = len1 + len2 - 2*LCS and
\* maximum = len1 + len2.  The score is held as the exact rational n/d =
\* 200*LCS / maximum that the double approximates; fl marks a double computed
\* this way, as against an int.
Ratio(s1, s2) ==
    IF s1 = <<>> /\ s2 = <<>> THEN [n |-> 100, d |-> 1, fl |-> TRUE]
    ELSE [n |-> 200 * LCS(s1, s2), d |-> Len(s1) + Len(s2), fl |-> TRUE]

\* an int k as a score
IntScore(k) == [n |-> k, d |-> 1, fl |-> FALSE]

-----------------------------------------------------------------------------
(* IEEE 754 binary64 arithmetic of the score, on binary numerals: a         *)
(* sequence of bits, most significant first, and a binary exponent.         *)

MantissaBits == 53

Zeros(k) == [i \in 1..k |-> 0]

StripZeros(b) ==
    LET nz == {i \in 1..Len(b) : b[i] = 1}
    IN  IF nz = {} THEN <<>>
        ELSE SubSeq(b, CHOOSE i \in nz : \A j \in nz : i <= j, Len(b))

RECURSIVE IntBits(_)
\* the binary numeral of a natural number
IntBits(k) == IF k = 0 THEN <<>> ELSE IntBits(k \div 2) \o <<k % 2>>

\* b + 1
AddOne(b) ==
    LET z == {i \in 1..Len(b) : b[i] = 0}
    IN  IF z = {} THEN <<1>> \o Zeros(Len(b))
        ELSE LET j == CHOOSE i \in z : \A k \in z : i >= k
             IN  [i \in 1..Len(b) |-> IF i < j THEN b[i] ELSE IF i = j THEN 1 ELSE 0]

\* numerals are worked on LimbBits bits at a time
LimbBits == 8
Limb == 2 ^ LimbBits

\* v < Limb as LimbBits bits
FixedBits(v) == [i \in 1..LimbBits |-> (v \div 2 ^ (LimbBits - i)) % 2]

RECURSIVE BitsVal(_)
\* the number a short numeral denotes
BitsVal(b) == IF b = <<>> THEN 0 ELSE 2 * BitsVal(SubSeq(b, 1, Len(b) - 1)) + b[Len(b)]

RECURSIVE MulFrom(_, _, _, _)
\* the low i limbs of b times k plus carry, as a numeral
MulFrom(b, k, i, carry) ==
    IF i = 0 THEN IntBits(carry)
    ELSE Bind(BitsVal(SubSeq(b, LimbBits * (i - 1) + 1, LimbBits * i)) * k + carry,
              LAMBDA v : MulFrom(b, k, i - 1, v \div Limb) \o FixedBits(v % Limb))

\* b * k for a small natural number k
MulSmall(b, k) ==
    Bind(Zeros((LimbBits - (Len(b) % LimbBits)) % LimbBits) \o b,
         LAMBDA pad : MulFrom(pad, k, Len(pad) \div LimbBits, 0))

\* 2^len - b, for 0 < b < 2^len
SubFromPow2(b, len) ==
    LET pad == Zeros(len - Len(b)) \o b
    IN  AddOne([i \in 1..len |-> 1 - pad[i]])

\* -1, 0, 1 as a < b, a = b, a > b
CompareBits(a, b) ==
    LET x == StripZeros(a)
        y == StripZeros(b)
        diff == {i \in 1..Len(x) : x[i] # y[i]}
    IN  IF Len(x) # Len(y) THEN (IF Len(x) > Len(y) THEN 1 ELSE -1)
        ELSE IF diff = {} THEN 0
        ELSE LET i == CHOOSE i \in diff : \A j \in diff : i <= j
             IN  IF x[i] > y[i] THEN 1 ELSE -1

\* the numeral m * 2^e rounded to MantissaBits significant bits, to nearest,
\* ties to even
RoundBits(m, e) ==
    LET b == StripZeros(m)
        drop == Len(b) - MantissaBits
        kept == SubSeq(b, 1, MantissaBits)
        up == /\ b[MantissaBits + 1] = 1
              /\ \/ kept[MantissaBits] = 1
                 \/ \E i \in (MantissaBits + 2)..Len(b) : b[i] = 1
    IN  IF drop <= 0 THEN [m |-> b, e |-> e]
        ELSE [m |-> IF up THEN AddOne(kept) ELSE kept, e |-> e + drop]

RECURSIVE LongDiv(_, _, _)
\* k limbs of r / q after the binary point (0 <= r < q), then a bit that is 1
\* if a remainder is left
LongDiv(r, q, k) ==
    IF k = 0 THEN <<IF r = 0 THEN 0 ELSE 1>>
    ELSE Bind((r * Limb) % q,
              LAMBDA rest : FixedBits((r * Limb) \div q) \o LongDiv(rest, q, k - 1))

\* limbs that hold MantissaBits + 2 bits of any p / q > 2^-16
DivLimbs == (MantissaBits + 2 + 16 + LimbBits - 1) \div LimbBits

\* the double p / q for 0 < p < q < 2^16
DivDouble(p, q) == RoundBits(LongDiv(p, q, DivLimbs), -(DivLimbs * LimbBits + 1))

\* the double 1.0 - x for a double 0 < x < 1
OneMinus(x) == RoundBits(SubFromPow2(x.m, -x.e), x.e)

\* the double x * 100
Times100(x) == RoundBits(MulSmall(x.m, 100), x.e)

\* where the double (1.0 - dist / maximum) * 100 lies against the exact n/d:
\* -1 below, 0 on it, 1 above
DoubleSide(n, d) ==
    IF n = 0 \/ n = 100 * d THEN 0
    ELSE Bind(Times100(OneMinus(DivDouble(100 * d - n, 100 * d))),
              LAMBDA f : CompareBits(MulSmall(f.m, d) \o Zeros(Max(f.e, 0)),
                                     IntBits(n) \o Zeros(Max(-f.e, 0))))

\* the side of the value a score holds against its n/d
Side(x) == IF x.fl THEN DoubleSide(x.n, x.d) ELSE 0

\* x > y, x >= y on scores: doubles of different n/d are ordered as their n/d
\* (they differ by more than the rounding errors), doubles of the same n/d
\* are the same double
ScoreGt(x, y) ==
    IF x.n * y.d # y.n * x.d THEN x.n * y.d > y.n * x.d
    ELSE x.fl # y.fl /\ Side(x) > Side(y)
ScoreGe(x, y) ==
    IF x.n * y.d # y.n * x.d THEN x.n * y.d > y.n * x.d
    ELSE x.fl = y.fl \/ Side(x) >= Side(y)

\* Python round(x) of a non-negative float: to nearest, ties to even; the
\* double of a score whose n/d is halfway is itself halfway only on side 0
Round(x) ==
    LET q == x.n \div x.d
        r == x.n % x.d
    IN  IF 2 * r < x.d THEN q
        ELSE IF 2 * r > x.d THEN q + 1
        ELSE Bind(Side(x), LAMBDA side :
                 IF side < 0 THEN q
                 ELSE IF side > 0 THEN q + 1
                 ELSE IF q % 2 = 0 THEN q ELSE q + 1)

\* the windows of s2 that _partial_ratio_impl(s1, s2) scores (len1 <= len2), in
\* its order: proper prefixes, full-length windows, suffixes; a window is scored
\* only if its last (for a suffix: its first) character occurs in s1
PartialWindows(s1, s2) ==
    LET len1 == Len(s1)
        len2 == Len(s2)
        set1 == CharSet(s1)
        pre == [i \in 1..(len1 - 1) |->
                  [from |-> 0, to |-> i, keep |-> s2[i] \in set1]]
        mid == [k \in 1..(len2 - len1) |->
                  [from |-> k - 1, to |-> k - 1 + len1,
                   keep |-> len1 > 0 /\ s2[Max(k - 1 + len1, 1)] \in set1]]
        suf == [k \in 1..len1 |->
                  [from |-> len2 - len1 + k - 1, to |-> len2,
                   keep |-> s2[len2 - len1 + k] \in set1]]
    IN  SelectSeq(pre \o mid \o suf, LAMBDA w : w.keep)

\* the loop of _partial_ratio_impl: a window replaces the best so far only with
\* a strictly greater score, so the result is the first window, in the order
\* of ws, of the greatest score, if that score is above the score of res
PartialBest(s1, s2, ws, res) ==
    Bind([k \in 1..Len(ws) |-> Ratio(s1, Slice(s2, ws[k].from, ws[k].to))],
         LAMBDA r :
             Bind({k \in 1..Len(ws) :
                      /\ ScoreGt(r[k], res.score)
                      /\ \A j \in 1..Len(ws) : ScoreGe(r[k], r[j])},
                  LAMBDA better :
                      IF better = {} THEN res
                      ELSE LET k == CHOOSE k \in better : \A j \in better : k <= j
                           IN  [res EXCEPT !.score = r[k], !.dest_start = ws[k].from,
                                           !.dest_end = ws[k].to]))

\* _partial_ratio_impl(s1, s2), len(s1) <= len(s2)
PartialRatioImpl(s1, s2) ==
    Bind(PartialWindows(s1, s2),
         LAMBDA ws : PartialBest(s1, s2, ws,
                         [score |-> IntScore(0), src_start |-> 0, src_end |-> Len(s1),
                          dest_start |-> 0, dest_end |-> Len(s1)]))

\* an alignment with source and destination exchanged
SwapAlignment(res) ==
    [score |-> res.score, src_start |-> res.dest_start, src_end |-> res.dest_end,
     dest_start |-> res.src_start, dest_end |-> res.src_end]

\* fuzz.partial_ratio_alignment(s1, s2) with the default score_cutoff
PartialRatioAlignment(s1, s2) ==
    IF s1 = <<>> /\ s2 = <<>>
    THEN [score |-> IntScore(100), src_start |-> 0, src_end |-> 0,
          dest_start |-> 0, dest_end |-> 0]
    ELSE LET shorter == IF Len(s1) <= Len(s2) THEN s1 ELSE s2
             longer == IF Len(s1) <= Len(s2) THEN s2 ELSE s1
             Best(res) ==
                 IF ~ScoreGe(res.score, IntScore(100)) /\ Len(s1) = Len(s2)
                 THEN Bind(PartialRatioImpl(longer, shorter),
                           LAMBDA res2 : IF ScoreGt(res2.score, res.score)
                                         THEN SwapAlignment(res2) ELSE res)
                 ELSE res
         IN  Bind(PartialRatioImpl(shorter, longer),
                  LAMBDA res : IF Len(s1) <= Len(s2) THEN Best(res)
                               ELSE SwapAlignment(Best(res)))

-----------------------------------------------------------------------------
(* novelty_score/utils/fuzzy_matching.py *)

\* stride = max(int(len(test_str) * STRIDE_PERCENT), 1)
Stride(test_str) == Max((Len(test_str) * STRIDE_PERCENT) \div 100, 1)

RECURSIVE SlowLoop(_, _, _, _)
\* for i in range(0, len(chunk) - len(test_str), stride): ...
SlowLoop(test_str, chunk, i, best) ==
    IF i >= Len(chunk) - Len(test_str) THEN best
    ELSE LET window == Slice(chunk, i, i + Len(test_str))
             score == Ratio(window, test_str)
         IN  SlowLoop(test_str, chunk, i + Stride(test_str),
                 IF ScoreGt(score, IntScore(best.score))
                 THEN [match |-> window, score |-> Round(score)]
                 ELSE best)

\* slow_fuzzy_match accepting only a score above the threshold
slow_fuzzy_match_Gt(test_str, chunk) ==
    LET best == SlowLoop(test_str, chunk, 0, [match |-> NONE, score |-> 0])
    IN  IF best.score > FUZZ_THRESHOLD THEN best ELSE [match |-> NONE, score |-> 0]

slow_fuzzy_match(test_str, chunk) ==
    LET best == SlowLoop(test_str, chunk, 0, [match |-> NONE, score |-> 0])
    IN  IF best.score >= FUZZ_THRESHOLD THEN best ELSE [match |-> NONE, score |-> 0]

\* fast_fuzzy_match without the threshold test
fast_fuzzy_match_NoThreshold(test_str, chunk) ==
    LET score_alignment == PartialRatioAlignment(test_str, chunk)
    IN  [match |-> Slice(chunk, score_alignment.dest_start, score_alignment.dest_end),
         score |-> Round(score_alignment.score)]

\* fast_fuzzy_match accepting a score equal to the threshold
fast_fuzzy_match_Ge(test_str, chunk) ==
    LET score_alignment == PartialRatioAlignment(test_str, chunk)
    IN  IF ScoreGe(score_alignment.score, IntScore(FUZZ_THRESHOLD))
        THEN [match |-> Slice(chunk, score_alignment.dest_start,
                                     score_alignment.dest_end),
              score |-> Round(score_alignment.score)]
        ELSE [match |-> NONE, score |-> 0]

fast_fuzzy_match(test_str, chunk) ==
    Bind(PartialRatioAlignment(test_str, chunk),
         LAMBDA score_alignment :
             IF ScoreGt(score_alignment.score, IntScore(FUZZ_THRESHOLD))
             THEN [match |-> Slice(chunk, score_alignment.dest_start,
                                          score_alignment.dest_end),
                   score |-> Round(score_alignment.score)]
             ELSE [match |-> NONE, score |-> 0])


-----------------------------------------------------------------------------
(* novelty_score/utils/chunk_processing.py: create_corpus_chunks *)

RECURSIVE FillChunk_Le(_, _, _)
\* the inner loop testing str_builder.tell() <= CHUNK_SIZE
FillChunk_Le(corpus_data, i, str_builder) ==
    IF i < Len(corpus_data) /\ Len(str_builder) <= CHUNK_SIZE
    THEN FillChunk_Le(corpus_data, i + 1, str_builder \o corpus_data[i + 1])
    ELSE [i |-> i, text |-> str_builder]

RECURSIVE FillChunk_DropOverflow(_, _, _)
\* the inner loop closing the chunk before CHUNK_SIZE is exceeded and
\* passing over the document that would exceed it
FillChunk_DropOverflow(corpus_data, i, str_builder) ==
    IF i < Len(corpus_data) /\ Len(str_builder) < CHUNK_SIZE
    THEN IF Len(str_builder) + Len(corpus_data[i + 1]) > CHUNK_SIZE
         THEN [i |-> i + 1, text |-> str_builder]
         ELSE FillChunk_DropOverflow(corpus_data, i + 1,
                                     str_builder \o corpus_data[i + 1])
    ELSE [i |-> i, text |-> str_builder]

RECURSIVE FillChunk(_, _, _)
\* while i < len(corpus_data) and str_builder.tell() < CHUNK_SIZE:
\*     str_builder.write(corpus_data[i]); i += 1
FillChunk(corpus_data, i, str_builder) ==
    IF i < Len(corpus_data) /\ Len(str_builder) < CHUNK_SIZE
    THEN FillChunk(corpus_data, i + 1, str_builder \o corpus_data[i + 1])
    ELSE [i |-> i, text |-> str_builder]

RECURSIVE ChunkLoop(_, _, _, _, _, _)
\* the outer loop; ends records the value of i at each chunks.append
ChunkLoop(corpus_data, max_corpus_chunks, start_index, i, chunks, ends) ==
    IF i < Len(corpus_data)
       /\ (IF max_corpus_chunks # 0 THEN Len(chunks) < max_corpus_chunks ELSE TRUE)
    THEN LET filled == FillChunk(corpus_data, i, <<>>)
         IN  ChunkLoop(corpus_data, max_corpus_chunks, start_index, filled.i,
                 Append(chunks, [idx |-> Len(chunks) + start_index,
                                 text |-> filled.text]),
                 Append(ends, filled.i))
    ELSE [chunks |-> chunks, ends |-> ends]

\* create_corpus_chunks numbering every call's chunks from 0
create_corpus_chunks_NoStart(corpus_data, max_corpus_chunks, start_index) ==
    ChunkLoop(corpus_data, max_corpus_chunks, 0, 0, <<>>, <<>>).chunks

\* the list of (index, text) returned; max_corpus_chunks = 0 models None
create_corpus_chunks(corpus_data, max_corpus_chunks, start_index) ==
    ChunkLoop(corpus_data, max_corpus_chunks, start_index, 0, <<>>, <<>>).chunks

\* the number of documents consumed when each chunk of the call was appended
ChunkEnds(corpus_data, max_corpus_chunks, start_index) ==
    ChunkLoop(corpus_data, max_corpus_chunks, start_index, 0, <<>>, <<>>).ends


-----------------------------------------------------------------------------
(* str.encode("utf-8") and bytes.decode("utf-8") on the characters of the  *)
(* model: "a", "b", "c", "X" and NUL are one byte, U+00E9 is the two bytes  *)
(* C3 A9.                                                                  *)

BytesOf(c) ==
    CASE c = "a" -> <<97>>
      [] c = "b" -> <<98>>
      [] c = "c" -> <<99>>
      [] c = "X" -> <<88>>
      [] c = "NUL" -> <<0>>
      [] c = "U+00E9" -> <<195, 169>>

RECURSIVE Encode(_)
Encode(text) ==
    IF text = <<>> THEN <<>> ELSE BytesOf(Head(text)) \o Encode(Tail(text))

RECURSIVE DecodeFrom(_, _)
\* [ok, text]: ok is FALSE where Python raises UnicodeDecodeError
DecodeFrom(bytes, acc) ==
    IF bytes = <<>> THEN [ok |-> TRUE, text |-> acc]
    ELSE IF Head(bytes) = 97 THEN DecodeFrom(Tail(bytes), Append(acc, "a"))
    ELSE IF Head(bytes) = 98 THEN DecodeFrom(Tail(bytes), Append(acc, "b"))
    ELSE IF Head(bytes) = 99 THEN DecodeFrom(Tail(bytes), Append(acc, "c"))
    ELSE IF Head(bytes) = 88 THEN DecodeFrom(Tail(bytes), Append(acc, "X"))
    ELSE IF Head(bytes) = 0 THEN DecodeFrom(Tail(bytes), Append(acc, "NUL"))
    ELSE IF Len(bytes) >= 2 /\ bytes[1] = 195 /\ bytes[2] = 169
         THEN DecodeFrom(SubSeq(bytes, 3, Len(bytes)), Append(acc, "U+00E9"))
    ELSE [ok |-> FALSE, text |-> acc]

Decode(bytes) == DecodeFrom(bytes, <<>>)

-----------------------------------------------------------------------------
(* Harness of the scorers: one (test string, chunk) pair, scored by both *)

ScoreIdle == sc_in = [test_str |-> <<>>, chunk |-> <<>>] /\ sc_fast = UNSET /\ sc_slow = UNSET

\* the text of n characters c
Repeat(c, n) == [i \in 1..n |-> c]

\* longer pairs whose best score lies at the threshold: the best alignment of
\* the first is 2600/43 (between 60 and 60.5), the best alignment and the best
\* window of the second are exactly 60, the only window of the third scores
\* 2500/42 (between 59.5 and 60)
ThresholdPairs ==
    { [test_str |-> Repeat("a", 13) \o Repeat("b", 17),
       chunk |-> Repeat("a", 13) \o Repeat("c", 30)],
      [test_str |-> <<"a", "a", "a", "b", "b">>,
       chunk |-> <<"c", "c", "a", "a", "a", "c", "c">>],
      [test_str |-> Repeat("a", 25) \o Repeat("b", 17),
       chunk |-> Repeat("a", 25) \o Repeat("c", 18)] }

\* longer pairs with a window whose double is not the exact score: windows
\* of 600/20, whose double lies above 30, and a window of 3400/80, whose
\* double lies above 42.5
RoundingPairs ==
    { [test_str |-> Repeat("a", 3) \o Repeat("b", 7),
       chunk |-> Repeat("a", 3) \o Repeat("c", 7) \o Repeat("a", 6)
                     \o Repeat("c", 4) \o <<"X">>],
      [test_str |-> Repeat("a", 17) \o Repeat("b", 23),
       chunk |-> Repeat("a", 17) \o Repeat("c", 23) \o <<"X">>] }

ScoreInit ==
    /\ sc_in \in [test_str : Texts(MaxQueryLen), chunk : Texts(MaxChunkLen)]
                    \cup ThresholdPairs \cup RoundingPairs
    /\ sc_fast = UNSET
    /\ sc_slow = UNSET

RunFast ==
    /\ sc_fast = UNSET
    /\ sc_fast' = fast_fuzzy_match(sc_in.test_str, sc_in.chunk)
    /\ UNCHANGED <<sc_in, sc_slow, chunk_vars, run_vars, main_vars, top_vars, two_vars>>

RunSlow ==
    /\ sc_slow = UNSET
    /\ sc_slow' = slow_fuzzy_match(sc_in.test_str, sc_in.chunk)
    /\ UNCHANGED <<sc_in, sc_fast, chunk_vars, run_vars, main_vars, top_vars, two_vars>>

-----------------------------------------------------------------------------
(* Harness of the chunk builder: main's lines 50-53 over successive shards *)

\* the letter the j-th document of a shard is written in: the documents of a
\* shard differ from each other, so a chunk text shows which documents it
\* holds and in which order
DocLetter(j) == <<"a", "b", "c", "d", "e", "f">>[((j - 1) % 6) + 1]

\* the document lists handed to the chunk builder: up to MaxDocs documents of
\* every length up to MaxDocLen, the empty document included
DocLists ==
    UNION {{[j \in 1..k |-> [c \in 1..lens[j] |-> DocLetter(j)]] :
               lens \in [1..k -> 0..MaxDocLen]} : k \in 0..MaxDocs}

NoCall == [called |-> FALSE, docs |-> <<>>, start |-> 0, chunks |-> <<>>, ends |-> <<>>]

ChunkIdle ==
    /\ cb_calls = 0 /\ cb_max = 0 /\ cb_start = 0 /\ cb_last = NoCall /\ cb_all = <<>>

ChunkInit ==
    /\ cb_calls = 0
    /\ cb_max \in 0..MaxChunksArg
    /\ cb_start = 0
    /\ cb_last = NoCall
    /\ cb_all = <<>>

\* chunks = create_corpus_chunks(corpus_data, num_chunks_to_read, start_idx)
\* start_idx += len(chunks)
BuildShard(corpus_data) ==
    /\ cb_calls < MaxCbShards
    /\ ~cb_last.called
    /\ LET built == create_corpus_chunks(corpus_data, cb_max, cb_start)
       IN  /\ cb_last' = [called |-> TRUE, docs |-> corpus_data, start |-> cb_start,
                          chunks |-> built,
                          ends |-> ChunkEnds(corpus_data, cb_max, cb_start)]
           /\ cb_start' = cb_start + Len(built)
           /\ cb_all' = cb_all \o [j \in 1..Len(built) |-> built[j].idx]
    /\ cb_calls' = cb_calls + 1
    /\ UNCHANGED <<cb_max, score_vars, run_vars, main_vars, top_vars, two_vars>>

\* the loop over corpus_files goes on: corpus_data and chunks are rebound
NextShard ==
    /\ cb_last.called
    /\ cb_last' = NoCall
    /\ UNCHANGED <<cb_calls, cb_max, cb_start, cb_all, score_vars, run_vars, main_vars, top_vars, two_vars>>


-----------------------------------------------------------------------------
(* One run of novelty_score/fuzzy_match_main.main: the coordinating process *)
(* and the worker tasks of its ProcessPoolExecutor                          *)

\* the test files of the runs: one line (a str) or a list of lines
TestInputs ==
    { [single |-> TRUE, strs |-> << <<"a", "b">> >>],
      [single |-> FALSE, strs |-> <<>>],
      [single |-> FALSE, strs |-> << <<"a", "b">>, <<"a", "a">> >>] }

\* the corpus files of the runs: an empty file; two documents of which the
\* second holds "ab"; two documents that both score 67 against "ab"; a document
\* that scores 0 and encodes to two bytes; a file ending in an empty document;
\* one document that scores 67 against "ab" with another match than "aa" gives;
\* a file whose only document is empty; a file that cannot be parsed
ShardPool ==
    { <<>>,
      << <<"b", "b">>, <<"a", "b">> >>,
      << <<"a", "a">>, <<"b", "b">> >>,
      << <<"U+00E9">> >>,
      << <<"a", "a">>, <<>> >>,
      << <<"b", "b">> >>,
      << <<>> >>,
      UNREADABLE }

\* corpus_files = CORPUS_FILES[:num_corpus_files], by content
Corpora == UNION {[1..n -> ShardPool] : n \in 1..MaxShards}

test_strings == test_data.strs
Queries == {test_strings[i] : i \in 1..Len(test_strings)}

\* the holder of the coordinator's own SharedMemory handle
COORD == << <<"coordinator">>, -1 >>

NoFutures == [k \in {} |-> 0]
\* a task just submitted; why is the exception a failed task ended with
NewTask == [st |-> "queued", region |-> 0, res |-> UNSET, why |-> "none"]
Finished(k) == futures[k].st \in {"done", "failed"}
LinkedRegions == {r \in 1..Len(regions) : regions[r].linked}
\* a region stays resident while its name exists or a handle to it is open
Resident(r) == regions[r].linked \/ regions[r].open # {}

\* Python truthiness of a match: neither None nor ""
Truthy(match) == match # NONE /\ match # <<>>

\* the results entry a search call starts from
NewResult ==
    [closest_solution |-> NONE, score |-> 0,
     chunk_results |-> IF detailed_results THEN <<>> ELSE NO_HISTORY]

\* the body of the as_completed loop of both search functions, for one result
MergeResult(r, idx, res) ==
    LET logged ==
            IF detailed_results /\ Truthy(res.match)
            THEN [r EXCEPT !.chunk_results =
                     Append(@, [chunk_index |-> idx, closest_solution |-> res.match,
                                score |-> res.score])]
            ELSE r
    IN  IF res.score > r.score
        THEN [logged EXCEPT !.closest_solution = res.match, !.score = res.score]
        ELSE logged

\* all_results[test_str].update(result)
UpdateEntry(entry, result) ==
    [entry EXCEPT !.closest_solution = result.closest_solution,
                  !.score = result.score,
                  !.chunk_results = result.chunk_results]

\* the end of one iteration of main's loop over corpus_files
NextFile(break) ==
    /\ pc' = IF break \/ file_idx >= Len(corpus) THEN "save" ELSE "load"
    /\ file_idx' = IF break THEN file_idx ELSE file_idx + 1

RunIdle ==
    /\ test_data = [single |-> FALSE, strs |-> <<>>]
    /\ corpus = <<>> /\ num_chunks_to_read = 0 /\ detailed_results = FALSE
    /\ pc = "idle" /\ file_idx = 1 /\ start_idx = 0 /\ corpus_chunks = <<>> /\ ci = 0
    /\ all_results = NoFutures /\ results = NoFutures /\ futures = NoFutures
    /\ yielded = {} /\ regions = <<>> /\ err = "none" /\ output = NoFutures
    /\ submitted = {} /\ observed = {}

RunInit ==
    /\ test_data \in TestInputs
    /\ corpus \in Corpora
    /\ num_chunks_to_read \in 0..MaxRunChunksArg
    /\ detailed_results \in BOOLEAN
    /\ pc = "load" /\ file_idx = 1 /\ start_idx = 0 /\ corpus_chunks = <<>> /\ ci = 0
    /\ all_results = [q \in Queries |->
           [solution |-> q, score |-> 0, closest_solution |-> NONE,
            chunk_results |-> IF detailed_results THEN <<>> ELSE NO_HISTORY]]
    /\ results = NoFutures /\ futures = NoFutures
    /\ yielded = {} /\ regions = <<>> /\ err = "none" /\ output = NoFutures
    /\ submitted = {} /\ observed = {}

inputs == <<test_data, corpus, num_chunks_to_read, detailed_results>>

\* main, lines 48-56 / 61: load the next file, build its chunks and enter the
\* search; the single-query search submits one task per chunk at once
LoadShard ==
    /\ pc = "load"
    /\ corpus[file_idx] # UNREADABLE
    /\ LET built == create_corpus_chunks(corpus[file_idx], num_chunks_to_read, start_idx)
           keys == {<<test_strings[1], built[j].idx>> : j \in 1..Len(built)}
       IN  /\ corpus_chunks' = built
           /\ start_idx' = start_idx + Len(built)
           /\ results' = [q \in Queries |-> NewResult]
           /\ IF test_data.single
              THEN /\ futures' = [k \in keys |-> NewTask]
                   /\ yielded' = {}
                   /\ submitted' = submitted \cup keys
                   /\ pc' = "collect"
                   /\ ci' = 0
              ELSE /\ UNCHANGED <<futures, yielded, submitted>>
                   /\ pc' = "publish"
                   /\ ci' = 1
    /\ UNCHANGED <<main_vars, top_vars, two_vars, score_vars, chunk_vars, inputs, file_idx, all_results, regions, err, output, observed>>

\* load_corpus_data logs the error and raises it again
LoadFail ==
    /\ pc = "load"
    /\ corpus[file_idx] = UNREADABLE
    /\ pc' = "aborted"
    /\ err' = "load_corpus_data"
    /\ UNCHANGED <<main_vars, top_vars, two_vars, score_vars, chunk_vars, inputs, file_idx, start_idx, corpus_chunks, ci, all_results, results,
                   futures, yielded, regions, output, submitted, observed>>

\* a worker runs fast_fuzzy_match(test_str, chunk_str) of the single-query search
RunTask(k) ==
    /\ test_data.single
    /\ k \in DOMAIN futures
    /\ futures[k].st = "queued"
    /\ \E j \in 1..Len(corpus_chunks) :
           /\ corpus_chunks[j].idx = k[2]
           /\ \E chunk_str \in {corpus_chunks[j].text} :
                  futures' = [futures EXCEPT ![k] =
                      [@ EXCEPT !.st = "done", !.res = fast_fuzzy_match(k[1], chunk_str)]]
    /\ UNCHANGED <<main_vars, top_vars, two_vars, score_vars, chunk_vars, inputs, pc, file_idx, start_idx, corpus_chunks, ci, all_results, results,
                   yielded, regions, err, output, submitted, observed>>

\* a worker task ends with an exception (any cause)
FailTask(k) ==
    /\ k \in DOMAIN futures
    /\ futures[k].st \in {"queued", "attached"}
    /\ futures' = [futures EXCEPT ![k] =
                      [@ EXCEPT !.st = "failed", !.region = 0, !.why = "Exception"]]
    /\ regions' = [r \in 1..Len(regions) |->
                     [regions[r] EXCEPT !.open = @ \ {k}]]
    /\ UNCHANGED <<main_vars, top_vars, two_vars, score_vars, chunk_vars, inputs, pc, file_idx, start_idx, corpus_chunks, ci, all_results, results,
                   yielded, err, output, submitted, observed>>

\* fuzzy_match_shared_memory, line 31: existing_shm = SharedMemory(name=SHM_NAME)
Attach(k) ==
    /\ ~test_data.single
    /\ k \in DOMAIN futures
    /\ futures[k].st = "queued"
    /\ Cardinality({j \in DOMAIN futures : futures[j].st = "attached"}) < MAX_WORKERS
    /\ IF LinkedRegions = {}
       THEN /\ futures' = [futures EXCEPT ![k] =
                              [@ EXCEPT !.st = "failed", !.why = "FileNotFoundError"]]
            /\ regions' = regions
       ELSE LET r == CHOOSE r \in LinkedRegions : TRUE
            IN  /\ futures' = [futures EXCEPT ![k] = [@ EXCEPT !.st = "attached", !.region = r]]
                /\ regions' = [regions EXCEPT ![r] = [@ EXCEPT !.open = @ \cup {k}]]
    /\ UNCHANGED <<main_vars, top_vars, two_vars, score_vars, chunk_vars, inputs, pc, file_idx, start_idx, corpus_chunks, ci, all_results, results,
                   yielded, err, output, submitted, observed>>

\* fuzzy_match_shared_memory, lines 32-34: decode the buffer, close, score
ScoreShared(k) ==
    /\ k \in DOMAIN futures
    /\ futures[k].st = "attached"
    /\ \E r \in {futures[k].region} : \E chunk \in {Decode(regions[r].buf)} :
           /\ futures' = [futures EXCEPT ![k] =
                  IF chunk.ok
                  THEN [@ EXCEPT !.st = "done", !.region = 0,
                                 !.res = fast_fuzzy_match(k[1], chunk.text)]
                  ELSE [@ EXCEPT !.st = "failed", !.region = 0,
                                 !.why = "UnicodeDecodeError"]]
           /\ regions' = [regions EXCEPT ![r] = [@ EXCEPT !.open = @ \ {k}]]
    /\ UNCHANGED <<main_vars, top_vars, two_vars, score_vars, chunk_vars, inputs, pc, file_idx, start_idx, corpus_chunks, ci, all_results, results,
                   yielded, err, output, submitted, observed>>

\* Collect merging every result into the entry of the last test string (the
\* loop variable left over from the submission) instead of futures[future]
Collect_LastQuery(k) ==
    /\ pc = "collect"
    /\ k \in DOMAIN futures
    /\ k \notin yielded
    /\ Finished(k)
    /\ yielded' = yielded \cup {k}
    /\ IF futures[k].st = "failed"
       THEN /\ pc' = "unwind"
            /\ err' = "task"
            /\ UNCHANGED <<results, observed>>
       ELSE LET res == futures[k].res
            IN  /\ results' = [results EXCEPT ![test_strings[Len(test_strings)]] =
                                  MergeResult(@, k[2], res)]
                /\ observed' = observed \cup {<<k[1], k[2], res>>}
                /\ pc' = IF test_data.single /\ res.score > results[k[1]].score
                            /\ res.score = 100
                         THEN "drain" ELSE "collect"
                /\ err' = err
    /\ UNCHANGED <<main_vars, top_vars, two_vars, score_vars, chunk_vars, inputs, file_idx, start_idx, corpus_chunks, ci, all_results, futures,
                   regions, output, submitted>>

\* one iteration of "for future in as_completed(futures)": future.result()
\* raises the task's exception, else the result is merged; the single-query
\* search breaks on a new best score of 100
Collect(k) ==
    /\ pc = "collect"
    /\ k \in DOMAIN futures
    /\ k \notin yielded
    /\ Finished(k)
    /\ yielded' = yielded \cup {k}
    /\ IF futures[k].st = "failed"
       THEN /\ pc' = "unwind"
            /\ err' = "task"
            /\ UNCHANGED <<results, observed>>
       ELSE LET res == futures[k].res
            IN  /\ results' = [results EXCEPT ![k[1]] = MergeResult(@, k[2], res)]
                /\ observed' = observed \cup {<<k[1], k[2], res>>}
                /\ pc' = IF test_data.single /\ res.score > results[k[1]].score
                            /\ res.score = 100
                         THEN "drain" ELSE "collect"
                /\ err' = err
    /\ UNCHANGED <<main_vars, top_vars, two_vars, score_vars, chunk_vars, inputs, file_idx, start_idx, corpus_chunks, ci, all_results, futures,
                   regions, output, submitted>>

\* FinishSingle without main's break on a score of 100
FinishSingle_NoBreak ==
    /\ test_data.single
    /\ \/ pc = "collect" /\ yielded = DOMAIN futures
       \/ pc = "drain" /\ \A k \in DOMAIN futures : Finished(k)
    /\ LET test_str == test_strings[1]
       IN  /\ all_results' = [all_results EXCEPT ![test_str] =
                                  UpdateEntry(@, results[test_str])]
           /\ NextFile(FALSE)
    /\ UNCHANGED <<main_vars, top_vars, two_vars, score_vars, chunk_vars, inputs, start_idx, corpus_chunks, ci, results,
                   futures, yielded, regions, err, output, submitted, observed>>

\* the single-query search returns: the executor's with block ends once every
\* submitted task has finished; main updates all_results and breaks on 100
FinishSingle ==
    /\ test_data.single
    /\ \/ pc = "collect" /\ yielded = DOMAIN futures
       \/ pc = "drain" /\ \A k \in DOMAIN futures : Finished(k)
    /\ LET test_str == test_strings[1]
       IN  /\ all_results' = [all_results EXCEPT ![test_str] =
                                  UpdateEntry(@, results[test_str])]
           /\ NextFile(results[test_str].score = 100)
    /\ UNCHANGED <<main_vars, top_vars, two_vars, score_vars, chunk_vars, inputs, start_idx, corpus_chunks, ci, results,
                   futures, yielded, regions, err, output, submitted, observed>>

\* Publish creating a region one byte longer than the encoded chunk
Publish_Padded ==
    /\ pc = "publish"
    /\ ci <= Len(corpus_chunks)
    /\ LET chunk_encoded == Encode(corpus_chunks[ci].text)
       IN  IF Len(chunk_encoded) = 0
           THEN /\ pc' = "aborted" /\ err' = "ValueError" /\ regions' = regions
           ELSE IF LinkedRegions # {}
           THEN /\ pc' = "aborted" /\ err' = "FileExistsError" /\ regions' = regions
           ELSE /\ pc' = "write"
                /\ err' = err
                /\ regions' = Append(regions,
                       [chunk |-> corpus_chunks[ci].idx,
                        buf |-> [j \in 1..(Len(chunk_encoded) + 1) |-> 0],
                        linked |-> TRUE, open |-> {COORD}])
    /\ UNCHANGED <<main_vars, top_vars, two_vars, score_vars, chunk_vars, inputs, file_idx, start_idx, corpus_chunks, ci, all_results, results,
                   futures, yielded, output, submitted, observed>>

\* batch search, lines 75-76: encode the chunk and create the region; the size
\* is tested (ValueError) before the name is opened (FileExistsError)
Publish ==
    /\ pc = "publish"
    /\ ci <= Len(corpus_chunks)
    /\ LET chunk_encoded == Encode(corpus_chunks[ci].text)
       IN  IF Len(chunk_encoded) = 0
           THEN /\ pc' = "aborted" /\ err' = "ValueError" /\ regions' = regions
           ELSE IF LinkedRegions # {}
           THEN /\ pc' = "aborted" /\ err' = "FileExistsError" /\ regions' = regions
           ELSE /\ pc' = "write"
                /\ err' = err
                /\ regions' = Append(regions,
                       [chunk |-> corpus_chunks[ci].idx,
                        buf |-> [j \in 1..Len(chunk_encoded) |-> 0],
                        linked |-> TRUE, open |-> {COORD}])
    /\ UNCHANGED <<main_vars, top_vars, two_vars, score_vars, chunk_vars, inputs, file_idx, start_idx, corpus_chunks, ci, all_results, results,
                   futures, yielded, output, submitted, observed>>

\* WriteChunk leaving the last byte of the region unwritten
WriteChunk_Partial ==
    /\ pc = "write"
    /\ regions' = [regions EXCEPT ![Len(regions)] =
                      [@ EXCEPT !.buf = [j \in 1..Len(@) |->
                           IF j < Len(@) THEN Encode(corpus_chunks[ci].text)[j] ELSE 0]]]
    /\ pc' = "submit"
    /\ UNCHANGED <<main_vars, top_vars, two_vars, score_vars, chunk_vars, inputs, file_idx, start_idx, corpus_chunks, ci,
                   all_results, results, futures, yielded, err, output, submitted, observed>>

\* line 77: shm.buf[:len(chunk_encoded)] = chunk_encoded
WriteChunk ==
    /\ pc = "write"
    /\ LET chunk_encoded == Encode(corpus_chunks[ci].text)
       IN  regions' = [regions EXCEPT ![Len(regions)] =
               [@ EXCEPT !.buf = [j \in 1..Len(@) |->
                    IF j <= Len(chunk_encoded) THEN chunk_encoded[j] ELSE @[j]]]]
    /\ pc' = "submit"
    /\ UNCHANGED <<main_vars, top_vars, two_vars, score_vars, chunk_vars, inputs, file_idx, start_idx, corpus_chunks, ci, all_results, results,
                   futures, yielded, err, output, submitted, observed>>

\* lines 78-82: a pool for the chunk and one task per test string
Submit ==
    /\ pc = "submit"
    /\ LET keys == {<<q, corpus_chunks[ci].idx>> : q \in Queries}
       IN  /\ futures' = [k \in keys |-> NewTask]
           /\ submitted' = submitted \cup keys
    /\ yielded' = {}
    /\ pc' = "collect"
    /\ UNCHANGED <<main_vars, top_vars, two_vars, score_vars, chunk_vars, inputs, file_idx, start_idx, corpus_chunks, ci, all_results, results,
                   regions, err, output, observed>>

\* ReleaseChunk not waiting for the tasks of the chunk
ReleaseChunk_Early ==
    /\ ~test_data.single
    /\ pc = "collect"
    /\ regions' = [regions EXCEPT ![Len(regions)] =
                      [@ EXCEPT !.open = @ \ {COORD}, !.linked = FALSE]]
    /\ ci' = ci + 1
    /\ pc' = "publish"
    /\ UNCHANGED <<main_vars, top_vars, two_vars, score_vars, chunk_vars, inputs, file_idx, start_idx, corpus_chunks,
                   all_results, results, futures, yielded, err, output, submitted, observed>>

\* ReleaseChunk leaving the loop over the chunks once a chunk gave a score of
\* 100 (the perfect_match_found break of main.py)
ReleaseChunk_BreakOnPerfect ==
    /\ ~test_data.single
    /\ pc = "collect"
    /\ yielded = DOMAIN futures
    /\ regions' = [regions EXCEPT ![Len(regions)] =
                      [@ EXCEPT !.open = @ \ {COORD}, !.linked = FALSE]]
    /\ ci' = IF \E k \in DOMAIN futures : futures[k].res.score = 100
             THEN Len(corpus_chunks) + 1 ELSE ci + 1
    /\ pc' = "publish"
    /\ UNCHANGED <<main_vars, top_vars, two_vars, score_vars, chunk_vars, inputs, file_idx, start_idx, corpus_chunks,
                   all_results, results, futures, yielded, err, output, submitted, observed>>

\* ReleaseChunk passing over the chunk that follows
ReleaseChunk_SkipNext ==
    /\ ~test_data.single
    /\ pc = "collect"
    /\ yielded = DOMAIN futures
    /\ regions' = [regions EXCEPT ![Len(regions)] =
                      [@ EXCEPT !.open = @ \ {COORD}, !.linked = FALSE]]
    /\ ci' = ci + 2
    /\ pc' = "publish"
    /\ UNCHANGED <<main_vars, top_vars, two_vars, score_vars, chunk_vars, inputs, file_idx, start_idx, corpus_chunks,
                   all_results, results, futures, yielded, err, output, submitted, observed>>

\* the as_completed loop of the chunk is over and the with block has ended;
\* lines 94-95: shm.close(); shm.unlink()
ReleaseChunk ==
    /\ ~test_data.single
    /\ pc = "collect"
    /\ yielded = DOMAIN futures
    /\ regions' = [regions EXCEPT ![Len(regions)] =
                      [@ EXCEPT !.open = @ \ {COORD}, !.linked = FALSE]]
    /\ ci' = ci + 1
    /\ pc' = "publish"
    /\ UNCHANGED <<main_vars, top_vars, two_vars, score_vars, chunk_vars, inputs, file_idx, start_idx, corpus_chunks,
                   all_results, results, futures, yielded, err, output, submitted, observed>>

\* the batch search returns; main, lines 64-65, updates every entry
ReturnBatch ==
    /\ pc = "publish"
    /\ ci > Len(corpus_chunks)
    /\ all_results' = [q \in Queries |-> UpdateEntry(all_results[q], results[q])]
    /\ NextFile(FALSE)
    /\ UNCHANGED <<main_vars, top_vars, two_vars, score_vars, chunk_vars, inputs, start_idx, corpus_chunks, ci, results, futures, yielded, regions,
                   err, output, submitted, observed>>

\* future.result() raised: the with block still waits for the tasks of the
\* pool, then the exception leaves the search and main
Unwind ==
    /\ pc = "unwind"
    /\ \A k \in DOMAIN futures : Finished(k)
    /\ pc' = "aborted"
    /\ UNCHANGED <<main_vars, top_vars, two_vars, score_vars, chunk_vars, inputs, file_idx, start_idx, corpus_chunks, ci, all_results, results,
                   futures, yielded, regions, err, output, submitted, observed>>

\* main, line 67: save_fuzzy_match_results(all_results, ...)
Save ==
    /\ pc = "save"
    /\ output' = all_results
    /\ pc' = "done"
    /\ UNCHANGED <<main_vars, top_vars, two_vars, score_vars, chunk_vars, inputs, file_idx, start_idx, corpus_chunks, ci, all_results, results,
                   futures, yielded, regions, err, submitted, observed>>

AllKeys == DOMAIN futures

-----------------------------------------------------------------------------
(* main.py: search_test_strings_in_corpus and its worker function          *)
(* find_best_match_for_test, one call on a list of test strings and a list *)
(* of chunk texts                                                          *)

\* most chunks handed to search_test_strings_in_corpus
MaxMainChunks == 2
\* main.py:21
MAIN_FUZZ_THRESHOLD == 50

\* thefuzz.fuzz.ratio: the rapidfuzz ratio rounded to an int
FuzzRatio(s1, s2) == Round(Ratio(s1, s2))

RECURSIVE MainScan(_, _, _, _)
\* main.py lines 41-45: the scan with stride max(int(len(test_str) * 0.05), 1)
MainScan(test_str, corpus_chunk, i, best) ==
    IF i >= Len(corpus_chunk) - Len(test_str) THEN best
    ELSE LET window == Slice(corpus_chunk, i, i + Len(test_str))
             score == FuzzRatio(window, test_str)
         IN  MainScan(test_str, corpus_chunk, i + Stride(test_str),
                 IF score > best.score
                 THEN [match |-> window, score |-> score]
                 ELSE best)

\* the (best_match, best_score) of the tuple the worker function returns
find_best_match_for_test(test_str, corpus_chunk) ==
    LET best == MainScan(test_str, corpus_chunk, 0, [match |-> NONE, score |-> 0])
    IN  IF best.score >= MAIN_FUZZ_THRESHOLD THEN best
        ELSE [match |-> NONE, score |-> 0]

\* the lists of test strings of the calls
MainTests ==
    { <<>>,
      << <<"a", "b">> >>,
      << <<"a", "b">>, <<"a", "a">> >> }

\* the chunk texts of the calls: "abb" holds "ab" in its first window, "aab"
\* holds "aa", "bba" holds neither, U+00E9 encodes to two bytes, and the empty
\* chunk has no bytes
MainChunkPool ==
    { <<"a", "b", "b">>, <<"a", "a", "b">>, <<"b", "b", "a">>, <<"U+00E9">>, <<>> }

MainChunkLists == UNION {[1..n -> MainChunkPool] : n \in 0..MaxMainChunks}

NoRegion == [linked |-> FALSE, buf |-> <<>>]

MainIdle ==
    /\ mp_tests = <<>> /\ mp_chunks = <<>> /\ mp_pc = "idle" /\ mp_ci = 0
    /\ mp_shm = NoRegion /\ mp_results = <<>> /\ mp_overall = NoFutures /\ mp_scored = {}

\* lines 84-86: overall_results
\* a longer call whose only window scores 4600/80: the double lies below 57.5
MainRoundingCalls ==
    { [test_strings |-> << Repeat("a", 23) \o Repeat("b", 17) >>,
       corpus_chunks |-> << Repeat("a", 23) \o Repeat("c", 17) \o <<"X">> >>] }

MainCalls ==
    [test_strings : MainTests, corpus_chunks : MainChunkLists] \cup MainRoundingCalls

MainInit ==
    /\ \E call \in MainCalls :
           /\ mp_tests = call.test_strings
           /\ mp_chunks = call.corpus_chunks
    /\ mp_pc = "chunk"
    /\ mp_ci = 1
    /\ mp_shm = NoRegion
    /\ mp_results = <<>>
    /\ mp_overall = [q \in {mp_tests[t] : t \in 1..Len(mp_tests)} |->
                        [score |-> 0, closest_solution |-> NONE]]
    /\ mp_scored = {}

\* lines 90-100: encode the chunk, create the region, write the bytes and
\* prepare one task per test string; a size of 0 raises ValueError
MainPublish ==
    /\ mp_pc = "chunk"
    /\ mp_ci <= Len(mp_chunks)
    /\ LET chunk_str_bytes == Encode(mp_chunks[mp_ci])
       IN  IF Len(chunk_str_bytes) = 0
           THEN /\ mp_pc' = "aborted"
                /\ UNCHANGED <<mp_shm, mp_results>>
           ELSE /\ mp_pc' = "map"
                /\ mp_shm' = [linked |-> TRUE, buf |-> chunk_str_bytes]
                /\ mp_results' = [t \in 1..Len(mp_tests) |-> UNSET]
    /\ UNCHANGED <<mp_tests, mp_chunks, mp_ci, mp_overall, mp_scored,
                   score_vars, chunk_vars, run_vars, top_vars, two_vars>>

\* a worker of pool.map runs find_best_match_for_test on task t
MainTask(t) ==
    /\ mp_pc = "map"
    /\ t \in 1..Len(mp_tests)
    /\ mp_results[t] = UNSET
    /\ mp_shm.linked
    /\ LET corpus_chunk == Decode(mp_shm.buf).text
       IN  mp_results' = [mp_results EXCEPT ![t] =
                             find_best_match_for_test(mp_tests[t], corpus_chunk)]
    /\ mp_scored' = mp_scored \cup {<<t, mp_ci>>}
    /\ UNCHANGED <<mp_tests, mp_chunks, mp_pc, mp_ci, mp_shm, mp_overall,
                   score_vars, chunk_vars, run_vars, top_vars, two_vars>>

RECURSIVE MergeChunkResults(_, _, _)
\* lines 107-110: the results of the chunk, in task order, into overall_results
MergeChunkResults(overall, chunk_results, t) ==
    IF t > Len(chunk_results) THEN overall
    ELSE LET test_str == mp_tests[t]
             r == chunk_results[t]
         IN  MergeChunkResults(
                 IF r.score > overall[test_str].score
                 THEN [overall EXCEPT ![test_str] =
                          [score |-> r.score, closest_solution |-> r.match]]
                 ELSE overall,
                 chunk_results, t + 1)

\* lines 102-120: pool.map has returned; merge, close and unlink the region,
\* and leave the loop over the chunks if a result of the chunk had score 100
MainMerge ==
    /\ mp_pc = "map"
    /\ \A t \in 1..Len(mp_tests) : mp_results[t] # UNSET
    /\ mp_overall' = MergeChunkResults(mp_overall, mp_results, 1)
    /\ mp_shm' = NoRegion
    /\ LET perfect_match_found == \E t \in 1..Len(mp_tests) : mp_results[t].score = 100
       IN  IF perfect_match_found
           THEN mp_pc' = "done" /\ mp_ci' = mp_ci
           ELSE mp_pc' = "chunk" /\ mp_ci' = mp_ci + 1
    /\ UNCHANGED <<mp_tests, mp_chunks, mp_results, mp_scored,
                   score_vars, chunk_vars, run_vars, top_vars, two_vars>>

\* line 122: the loop over the chunks is exhausted
MainReturn ==
    /\ mp_pc = "chunk"
    /\ mp_ci > Len(mp_chunks)
    /\ mp_pc' = "done"
    /\ UNCHANGED <<mp_tests, mp_chunks, mp_ci, mp_shm, mp_results, mp_overall, mp_scored,
                   score_vars, chunk_vars, run_vars, top_vars, two_vars>>

-----------------------------------------------------------------------------
(* fuzzy_match_main.py (the single-file variant): its two search functions,
   called with detailed_results = True on the same corpus_chunks, the
   single-query search for the first test string and the batch search for the
   whole list *)

MaxTopChunks == 2

\* lines 48-59: the alignment scorer of this variant
top_fast_fuzzy_match(test_str, chunk) == fast_fuzzy_match(test_str, chunk)

\* lines 60-69: the worker of the batch search scores the decoded region
top_fuzzy_match_shared_memory(test_str, buf) ==
    top_fast_fuzzy_match(test_str, Decode(buf).text)

TopTests ==
    { << <<"a", "b">> >>,
      << <<"a", "b">>, <<"a", "a">> >> }

\* "ab" and "aa" score above the threshold for some query, U+00E9 scores 0 for
\* every query, and the empty text cannot be published
TopChunkPool == { <<"a", "b">>, <<"a", "a">>, <<"U+00E9">>, <<>> }

TopChunkTexts == UNION {[1..n -> TopChunkPool] : n \in 0..MaxTopChunks}

\* corpus_chunks as create_corpus_chunks returns them: (chunk_index, text)
TopChunkLists ==
    { [j \in 1..Len(f) |-> [idx |-> j - 1, text |-> f[j]]] : f \in TopChunkTexts }

TopIdle ==
    /\ tp_tests = <<>> /\ tp_chunks = <<>>
    /\ tp_spc = "idle" /\ tp_scollected = {}
    /\ tp_sres = [closest_solution |-> NONE, score |-> 0, chunk_results |-> <<>>]
    /\ tp_bpc = "idle" /\ tp_bci = 0 /\ tp_bcollected = {} /\ tp_bres = <<>>

\* lines 125-128 and 170-173: both calls start with no match and an empty history
TopInit ==
    /\ tp_tests \in TopTests
    /\ tp_chunks \in TopChunkLists
    /\ tp_spc = "collect" /\ tp_scollected = {}
    /\ tp_sres = [closest_solution |-> NONE, score |-> 0, chunk_results |-> <<>>]
    /\ tp_bpc = "chunk" /\ tp_bci = 1 /\ tp_bcollected = {}
    /\ tp_bres = [t \in {tp_tests[k] : k \in 1..Len(tp_tests)} |->
                    [closest_solution |-> NONE, score |-> 0, chunk_results |-> <<>>]]

\* lines 137-154: as_completed yields the future of chunk position j, in any
\* order of completion; the entry is appended whatever the result is
TopCollectSingle(j) ==
    /\ tp_spc = "collect"
    /\ j \in 1..Len(tp_chunks) /\ j \notin tp_scollected
    /\ LET res == top_fast_fuzzy_match(tp_tests[1], tp_chunks[j].text)
           entry == [chunk_index |-> tp_chunks[j].idx,
                     closest_solution |-> res.match, score |-> res.score]
           better == res.score > tp_sres.score
       IN  /\ tp_sres' = [closest_solution |-> IF better THEN res.match
                                               ELSE tp_sres.closest_solution,
                          score |-> IF better THEN res.score ELSE tp_sres.score,
                          chunk_results |-> Append(tp_sres.chunk_results, entry)]
           /\ tp_spc' = IF better /\ res.score = 100 THEN "done" ELSE "collect"
    /\ tp_scollected' = tp_scollected \cup {j}
    /\ UNCHANGED <<tp_tests, tp_chunks, tp_bpc, tp_bci, tp_bcollected, tp_bres,
                   score_vars, chunk_vars, run_vars, main_vars, two_vars>>

\* lines 156-160: every future has been yielded
TopReturnSingle ==
    /\ tp_spc = "collect"
    /\ tp_scollected = 1..Len(tp_chunks)
    /\ tp_spc' = "done"
    /\ UNCHANGED <<tp_tests, tp_chunks, tp_scollected, tp_sres, tp_bpc, tp_bci,
                   tp_bcollected, tp_bres, score_vars, chunk_vars, run_vars, main_vars, two_vars>>

\* lines 175-179: the chunk is encoded and published; SharedMemory raises
\* ValueError for a size of 0
TopPublish ==
    /\ tp_bpc = "chunk"
    /\ tp_bci <= Len(tp_chunks)
    /\ tp_bpc' = IF Encode(tp_chunks[tp_bci].text) = <<>> THEN "aborted" ELSE "collect"
    /\ tp_bcollected' = {}
    /\ UNCHANGED <<tp_tests, tp_chunks, tp_spc, tp_scollected, tp_sres, tp_bci, tp_bres,
                   score_vars, chunk_vars, run_vars, main_vars, two_vars>>

\* lines 181-198: as_completed yields the future of test position t; the entry
\* is appended only for a truthy best_match
TopCollectBatch(t) ==
    /\ tp_bpc = "collect"
    /\ t \in 1..Len(tp_tests) /\ t \notin tp_bcollected
    /\ LET test_str == tp_tests[t]
           res == top_fuzzy_match_shared_memory(test_str, Encode(tp_chunks[tp_bci].text))
           old == tp_bres[test_str]
           entry == [chunk_index |-> tp_chunks[tp_bci].idx,
                     closest_solution |-> res.match, score |-> res.score]
           better == res.score > old.score
       IN  tp_bres' = [tp_bres EXCEPT ![test_str] =
                [closest_solution |-> IF better THEN res.match ELSE old.closest_solution,
                 score |-> IF better THEN res.score ELSE old.score,
                 chunk_results |-> IF Truthy(res.match)
                                   THEN Append(old.chunk_results, entry)
                                   ELSE old.chunk_results]]
    /\ tp_bcollected' = tp_bcollected \cup {t}
    /\ UNCHANGED <<tp_tests, tp_chunks, tp_spc, tp_scollected, tp_sres, tp_bpc, tp_bci,
                   score_vars, chunk_vars, run_vars, main_vars, two_vars>>

\* lines 200-202: the pool is left, the region is closed and unlinked
TopRelease ==
    /\ tp_bpc = "collect"
    /\ tp_bcollected = 1..Len(tp_tests)
    /\ tp_bpc' = "chunk"
    /\ tp_bci' = tp_bci + 1
    /\ UNCHANGED <<tp_tests, tp_chunks, tp_spc, tp_scollected, tp_sres, tp_bcollected,
                   tp_bres, score_vars, chunk_vars, run_vars, main_vars, two_vars>>

\* line 204
TopReturnBatch ==
    /\ tp_bpc = "chunk"
    /\ tp_bci > Len(tp_chunks)
    /\ tp_bpc' = "done"
    /\ UNCHANGED <<tp_tests, tp_chunks, tp_spc, tp_scollected, tp_sres, tp_bci,
                   tp_bcollected, tp_bres, score_vars, chunk_vars, run_vars, main_vars, two_vars>>

-----------------------------------------------------------------------------
(* Two batch-mode runs on one host: each is a call of
   search_multiple_test_strings_in_chunks in a process of its own, and both
   name their region SHM_NAME *)

MaxTwoChunks == 2

Runs == {1, 2}

TwoChunkPool == { <<"a", "b">>, <<"a", "a">>, <<>> }

\* the corpus_chunks of a run, numbered from 0
TwoChunkLists ==
    { [j \in 1..Len(f) |-> [idx |-> j - 1, text |-> f[j]]] :
        f \in UNION {[1..n -> TwoChunkPool] : n \in 0..MaxTwoChunks} }

TwoTests ==
    { << <<"a", "b">> >>,
      << <<"a", "b">>, <<"a", "a">> >> }

\* no region is linked under SHM_NAME
NoSharedChunk == [linked |-> FALSE, owner |-> 0, chunk |-> -1, buf |-> <<>>]

TwoIdle ==
    /\ tw_in = <<>> /\ tw_pc = <<>> /\ tw_ci = <<>> /\ tw_futures = <<>>
    /\ tw_collected = <<>>
    /\ tw_results = <<>> /\ tw_err = <<>> /\ tw_shm = NoSharedChunk /\ tw_reads = {}

\* lines 66-73: the results of each run start with no match
TwoInit ==
    /\ tw_in \in [Runs -> [test_strings : TwoTests, corpus_chunks : TwoChunkLists]]
    /\ tw_pc = [r \in Runs |-> "chunk"]
    /\ tw_ci = [r \in Runs |-> 1]
    /\ tw_futures = [r \in Runs |-> <<>>]
    /\ tw_collected = [r \in Runs |-> {}]
    /\ tw_results = [r \in Runs |->
            [q \in {tw_in[r].test_strings[k] : k \in 1..Len(tw_in[r].test_strings)} |->
                [closest_solution |-> NONE, score |-> 0, chunk_results |-> NO_HISTORY]]]
    /\ tw_err = [r \in Runs |-> "none"]
    /\ tw_shm = NoSharedChunk
    /\ tw_reads = {}

\* lines 74-77 in run r: create=True with size 0 raises ValueError before the
\* name is opened; else it raises FileExistsError while a region is linked
\* under the name, whichever run linked it
TwoPublish(r) ==
    /\ tw_pc[r] = "chunk"
    /\ tw_ci[r] <= Len(tw_in[r].corpus_chunks)
    /\ LET chunk == tw_in[r].corpus_chunks[tw_ci[r]]
           chunk_encoded == Encode(chunk.text)
       IN  IF Len(chunk_encoded) = 0
           THEN /\ tw_pc' = [tw_pc EXCEPT ![r] = "aborted"]
                /\ tw_err' = [tw_err EXCEPT ![r] = "ValueError"]
                /\ tw_shm' = tw_shm
           ELSE IF tw_shm.linked
           THEN /\ tw_pc' = [tw_pc EXCEPT ![r] = "aborted"]
                /\ tw_err' = [tw_err EXCEPT ![r] = "FileExistsError"]
                /\ tw_shm' = tw_shm
           ELSE /\ tw_pc' = [tw_pc EXCEPT ![r] = "submit"]
                /\ tw_err' = tw_err
                /\ tw_shm' = [linked |-> TRUE, owner |-> r, chunk |-> chunk.idx,
                              buf |-> chunk_encoded]
    /\ UNCHANGED <<tw_in, tw_ci, tw_futures, tw_collected, tw_results, tw_reads,
                   score_vars, chunk_vars, run_vars, main_vars, top_vars>>

\* lines 78-82 in run r: one task per test string is submitted to the pool
TwoSubmit(r) ==
    /\ tw_pc[r] = "submit"
    /\ tw_futures' = [tw_futures EXCEPT ![r] =
                          [t \in 1..Len(tw_in[r].test_strings) |-> NewTask]]
    /\ tw_collected' = [tw_collected EXCEPT ![r] = {}]
    /\ tw_pc' = [tw_pc EXCEPT ![r] = "collect"]
    /\ UNCHANGED <<tw_in, tw_ci, tw_results, tw_err, tw_shm, tw_reads,
                   score_vars, chunk_vars, run_vars, main_vars, top_vars>>

\* fuzzy_matching.py lines 30-34, in a worker of run r's pool, for the task of
\* test position t: attach to whatever is linked under SHM_NAME, decode the
\* buffer, close, score; the calling process is not involved
TwoWorker(r, t) ==
    /\ tw_pc[r] \in {"collect", "unwind"}
    /\ t \in DOMAIN tw_futures[r]
    /\ tw_futures[r][t].st = "queued"
    /\ IF ~tw_shm.linked
       THEN /\ tw_futures' = [tw_futures EXCEPT ![r][t] =
                                  [@ EXCEPT !.st = "failed", !.why = "FileNotFoundError"]]
            /\ tw_reads' = tw_reads
       ELSE /\ \E chunk \in {Decode(tw_shm.buf).text} :
                   tw_futures' = [tw_futures EXCEPT ![r][t] =
                       [@ EXCEPT !.st = "done",
                                 !.res = fast_fuzzy_match(tw_in[r].test_strings[t], chunk)]]
            /\ tw_reads' = tw_reads \cup {<<r, tw_shm.owner>>}
    /\ UNCHANGED <<tw_in, tw_pc, tw_ci, tw_collected, tw_results, tw_err, tw_shm,
                   score_vars, chunk_vars, run_vars, main_vars, top_vars>>

\* fuzzy_matching.py lines 30-34: a worker task of run r ends with an
\* exception (any cause), either before it attaches (line 31) or in the
\* scoring of line 34, after it has attached, decoded and closed whatever is
\* linked under SHM_NAME
TwoFail(r, t) ==
    /\ tw_pc[r] \in {"collect", "unwind"}
    /\ t \in DOMAIN tw_futures[r]
    /\ tw_futures[r][t].st = "queued"
    /\ tw_futures' = [tw_futures EXCEPT ![r][t] =
                          [@ EXCEPT !.st = "failed", !.why = "Exception"]]
    /\ \/ tw_reads' = tw_reads
       \/ /\ tw_shm.linked
          /\ tw_reads' = tw_reads \cup {<<r, tw_shm.owner>>}
    /\ UNCHANGED <<tw_in, tw_pc, tw_ci, tw_collected, tw_results, tw_err, tw_shm,
                   score_vars, chunk_vars, run_vars, main_vars, top_vars>>

\* lines 83-93 in run r: as_completed yields the finished task of test
\* position t; future.result() raises the task's exception, which leaves the
\* with block only after the pool has shut down, else the result is merged
TwoCollect(r, t) ==
    /\ tw_pc[r] = "collect"
    /\ t \in DOMAIN tw_futures[r] /\ t \notin tw_collected[r]
    /\ tw_futures[r][t].st \in {"done", "failed"}
    /\ LET test_str == tw_in[r].test_strings[t]
           idx == tw_in[r].corpus_chunks[tw_ci[r]].idx
       IN  IF tw_futures[r][t].st = "failed"
           THEN /\ tw_pc' = [tw_pc EXCEPT ![r] = "unwind"]
                /\ tw_err' = [tw_err EXCEPT ![r] = tw_futures[r][t].why]
                /\ tw_results' = tw_results
           ELSE /\ tw_results' = [tw_results EXCEPT ![r][test_str] =
                        MergeResult(@, idx, tw_futures[r][t].res)]
                /\ UNCHANGED <<tw_pc, tw_err>>
    /\ tw_collected' = [tw_collected EXCEPT ![r] = @ \cup {t}]
    /\ UNCHANGED <<tw_in, tw_ci, tw_futures, tw_shm, tw_reads,
                   score_vars, chunk_vars, run_vars, main_vars, top_vars>>

\* the exit of the with block in run r after a raise: shutdown(wait=True)
\* returns when every task of the pool has ended, then the exception leaves
\* the call; lines 94-95 are not reached and the name stays linked
TwoUnwind(r) ==
    /\ tw_pc[r] = "unwind"
    /\ \A t \in DOMAIN tw_futures[r] : tw_futures[r][t].st \in {"done", "failed"}
    /\ tw_pc' = [tw_pc EXCEPT ![r] = "aborted"]
    /\ UNCHANGED <<tw_in, tw_ci, tw_futures, tw_collected, tw_results, tw_err, tw_shm, tw_reads,
                   score_vars, chunk_vars, run_vars, main_vars, top_vars>>

\* lines 94-95 in run r: close, and unlink the name
TwoRelease(r) ==
    /\ tw_pc[r] = "collect"
    /\ tw_collected[r] = 1..Len(tw_in[r].test_strings)
    /\ tw_shm' = NoSharedChunk
    /\ tw_pc' = [tw_pc EXCEPT ![r] = "chunk"]
    /\ tw_ci' = [tw_ci EXCEPT ![r] = @ + 1]
    /\ UNCHANGED <<tw_in, tw_futures, tw_collected, tw_results, tw_err, tw_reads,
                   score_vars, chunk_vars, run_vars, main_vars, top_vars>>

\* line 96 in run r
TwoReturn(r) ==
    /\ tw_pc[r] = "chunk"
    /\ tw_ci[r] > Len(tw_in[r].corpus_chunks)
    /\ tw_pc' = [tw_pc EXCEPT ![r] = "done"]
    /\ UNCHANGED <<tw_in, tw_ci, tw_futures, tw_collected, tw_results, tw_err, tw_shm, tw_reads,
                   score_vars, chunk_vars, run_vars, main_vars, top_vars>>

-----------------------------------------------------------------------------
(* Specifications *)

Init == RunInit /\ ScoreIdle /\ ChunkIdle /\ MainIdle /\ TopIdle /\ TwoIdle

Next ==
    \/ LoadShard
    \/ LoadFail
    \/ \E k \in AllKeys : RunTask(k)
    \/ \E k \in AllKeys : FailTask(k)
    \/ \E k \in AllKeys : Attach(k)
    \/ \E k \in AllKeys : ScoreShared(k)
    \/ \E k \in AllKeys : Collect(k)
    \/ FinishSingle
    \/ Publish
    \/ WriteChunk
    \/ Submit
    \/ ReleaseChunk
    \/ ReturnBatch
    \/ Unwind
    \/ Save

Spec == Init /\ [][Next]_vars

\* the steps of the calling process when no worker task fails
Coordinator ==
    \/ LoadShard
    \/ LoadFail
    \/ \E k \in AllKeys : Collect(k)
    \/ FinishSingle
    \/ Publish
    \/ WriteChunk
    \/ Submit
    \/ ReleaseChunk
    \/ ReturnBatch
    \/ Save

\* the steps of the pool's workers when every task completes without failure
Workers ==
    \/ \E k \in AllKeys : RunTask(k)
    \/ \E k \in AllKeys : Attach(k)
    \/ \E k \in AllKeys : ScoreShared(k)

NextLive == Coordinator \/ Workers

\* the calling process keeps running, and the pool keeps running its tasks
SpecLive == Init /\ [][NextLive]_vars /\ WF_vars(Coordinator) /\ WF_vars(Workers)

InitScore == ScoreInit /\ ChunkIdle /\ RunIdle /\ MainIdle /\ TopIdle /\ TwoIdle
NextScore == RunFast \/ RunSlow
SpecScore == InitScore /\ [][NextScore]_vars

InitChunks == ChunkInit /\ ScoreIdle /\ RunIdle /\ MainIdle /\ TopIdle /\ TwoIdle
NextChunks ==
    \/ \E docs \in DocLists : BuildShard(docs)
    \/ NextShard
SpecChunks == InitChunks /\ [][NextChunks]_vars

InitMain == MainInit /\ ScoreIdle /\ ChunkIdle /\ RunIdle /\ TopIdle /\ TwoIdle
NextMain ==
    \/ MainPublish
    \/ \E t \in 1..Len(mp_tests) : MainTask(t)
    \/ MainMerge
    \/ MainReturn
SpecMain == InitMain /\ [][NextMain]_vars

InitTop == TopInit /\ ScoreIdle /\ ChunkIdle /\ RunIdle /\ MainIdle /\ TwoIdle
NextTop ==
    \/ \E j \in 1..Len(tp_chunks) : TopCollectSingle(j)
    \/ TopReturnSingle
    \/ TopPublish
    \/ \E t \in 1..Len(tp_tests) : TopCollectBatch(t)
    \/ TopRelease
    \/ TopReturnBatch
SpecTop == InitTop /\ [][NextTop]_vars

InitTwo == TwoInit /\ ScoreIdle /\ ChunkIdle /\ RunIdle /\ MainIdle /\ TopIdle
NextTwo ==
    \/ \E r \in Runs : TwoPublish(r)
    \/ \E r \in Runs : TwoSubmit(r)
    \/ \E r \in Runs : \E t \in 1..Len(tw_in[r].test_strings) : TwoWorker(r, t)
    \/ \E r \in Runs : \E t \in 1..Len(tw_in[r].test_strings) : TwoFail(r, t)
    \/ \E r \in Runs : \E t \in 1..Len(tw_in[r].test_strings) : TwoCollect(r, t)
    \/ \E r \in Runs : TwoUnwind(r)
    \/ \E r \in Runs : TwoRelease(r)
    \/ \E r \in Runs : TwoReturn(r)
SpecTwo == InitTwo /\ [][NextTwo]_vars


-----------------------------------------------------------------------------
(* Claims *)

\* the results the coordinator collected for test string q
ObservedFor(q) == {o \in observed : o[1] = q}
\* the greatest score among them, 0 when there is none
MaxObserved(q) ==
    IF ObservedFor(q) = {} THEN 0
    ELSE CHOOSE m \in {o[3].score : o \in ObservedFor(q)} :
             \A o \in ObservedFor(q) : o[3].score <= m

\* C1: the best score main records for a query never decreases during a run:
\* no step of the run lowers all_results[q].score, in either mode.
C1_ScoreNeverDecreases ==
    [][\A q \in DOMAIN all_results :
           all_results'[q].score >= all_results[q].score]_vars

\* C2: when the run has saved its results, every query's score is the greatest
\* score among the results collected over all shards, and closest_solution is
\* the match of a collected result with that score (None when it is 0).
C2_FinalIsMaxOverAllChunks ==
    pc = "done" =>
        \A q \in DOMAIN output :
            /\ output[q].score = MaxObserved(q)
            /\ IF MaxObserved(q) = 0
               THEN output[q].closest_solution = NONE
               ELSE \E o \in ObservedFor(q) :
                        /\ o[3].score = MaxObserved(q)
                        /\ o[3].match = output[q].closest_solution


\* the regions that are resident
ResidentRegions == {r \in 1..Len(regions) : Resident(r)}

\* C3: in batch mode at most one shared region exists at any time: only the
\* newest region is ever resident, a create never meets a region that is still
\* linked, and when the region of the next chunk has just been created every
\* task of the chunk before has finished.
C3_OneRegionAtATime ==
    /\ Cardinality(ResidentRegions) <= 1
    /\ \A r \in ResidentRegions : r = Len(regions)
    /\ err # "FileExistsError"
    /\ pc \in {"write", "submit"} => \A k \in DOMAIN futures : Finished(k)

\* the region of a second chunk has just been created, after the tasks of the
\* chunk before it
C3_Witness ==
    /\ pc = "write"
    /\ Len(regions) >= 2
    /\ DOMAIN futures # {}

\* the text of the chunk of the current file that has index idx
ChunkText(idx) ==
    LET j == CHOOSE j \in 1..Len(corpus_chunks) : corpus_chunks[j].idx = idx
    IN  corpus_chunks[j].text

\* C4: in batch mode, while a task of a chunk has not finished, the region of
\* that chunk is linked and holds all the bytes of the chunk (so the release
\* comes after every task, and every attach and read between the write and the
\* release); an attached task holds the region of its own chunk; no attach
\* ever fails for a missing region.
C4_RegionProtocol ==
    ~test_data.single =>
        \A k \in DOMAIN futures :
            /\ futures[k].why # "FileNotFoundError"
            /\ ~Finished(k) =>
                   /\ LinkedRegions = {Len(regions)}
                   /\ regions[Len(regions)].chunk = k[2]
                   /\ regions[Len(regions)].buf = Encode(ChunkText(k[2]))
            /\ futures[k].st = "attached" =>
                   /\ futures[k].region = Len(regions)
                   /\ k \in regions[Len(regions)].open

\* a region has been released after every task of its chunk returned a result
C4_Witness ==
    /\ ~test_data.single
    /\ regions # <<>>
    /\ ~regions[Len(regions)].linked
    /\ DOMAIN futures # {}
    /\ \A k \in DOMAIN futures : futures[k].st = "done" /\ k[2] = regions[Len(regions)].chunk

\* the coordinator of a single-query run has collected a result of score 100
Perfect == test_data.single /\ \E o \in observed : o[3].score = 100

\* C5: in single-query mode, once a result of score 100 has been collected no
\* task is submitted and the driver never returns to the head of its loop over
\* the corpus files: no further file is loaded, chunked or searched.
C5_NoWorkAfterPerfect ==
    [][Perfect => /\ submitted' = submitted
                  /\ pc' # "load"
                  /\ start_idx' = start_idx
                  /\ corpus_chunks' = corpus_chunks]_vars

\* a single-query run ended on a score of 100 with a corpus file left unread
\* and a submitted task whose result was never collected
C5_Witness ==
    /\ Perfect
    /\ pc = "done"
    /\ file_idx < Len(corpus)
    /\ \E k \in DOMAIN futures : k \notin yielded

\* C6: a batch run that reaches its end has collected a result for every test
\* string and every chunk built from every corpus file, whatever scores of 100
\* came earlier.
C6_BatchScansEverything ==
    (~test_data.single /\ pc = "done") =>
        /\ submitted = Queries \X (0..(start_idx - 1))
        /\ \A q \in Queries : \A idx \in 0..(start_idx - 1) :
               \E o \in observed : o[1] = q /\ o[2] = idx

\* a batch run ended in which a score of 100 was followed by further chunks
C6_Witness ==
    /\ ~test_data.single
    /\ pc = "done"
    /\ \E o \in observed : o[3].score = 100 /\ o[2] < start_idx - 1

RECURSIVE Flatten(_)
\* the concatenation of a list of texts
Flatten(texts) ==
    IF texts = <<>> THEN <<>> ELSE Head(texts) \o Flatten(Tail(texts))

\* the texts of the chunks of the last call
LastTexts == [j \in 1..Len(cb_last.chunks) |-> cb_last.chunks[j].text]
\* the documents consumed before and after chunk j of the last call was built
LastFrom(j) == IF j = 1 THEN 0 ELSE cb_last.ends[j - 1]
LastTo(j) == cb_last.ends[j]
\* the documents the last call consumed
LastConsumed == IF cb_last.ends = <<>> THEN 0 ELSE cb_last.ends[Len(cb_last.ends)]

\* every chunk of the last call is the concatenation of a contiguous run of
\* whole documents, the runs following each other from the first document on
LastWholeDocs ==
    /\ Len(cb_last.ends) = Len(cb_last.chunks)
    /\ \A j \in 1..Len(cb_last.chunks) :
           /\ LastFrom(j) <= LastTo(j)
           /\ LastTo(j) <= Len(cb_last.docs)
           /\ cb_last.chunks[j].text =
                  Flatten(SubSeq(cb_last.docs, LastFrom(j) + 1, LastTo(j)))

\* C7: over the calls of one run, each starting at the number of chunks built
\* before it, the chunk indices assigned are exactly 0, 1, ..., n-1 in order.
C7_IndicesContiguous ==
    /\ cb_all = [j \in 1..Len(cb_all) |-> j - 1]
    /\ cb_start = Len(cb_all)

\* a later call, starting above 0, has built two chunks or more
C7_Witness ==
    /\ cb_last.called
    /\ cb_calls >= 2
    /\ cb_last.start > 0
    /\ Len(cb_last.chunks) >= 2

\* C8 as claimed: for every document list the chunk texts, concatenated in
\* index order, reproduce the concatenation of all the documents of the shard,
\* and every chunk is a contiguous run of whole documents.
C8_ChunksReproduceShard ==
    cb_last.called =>
        /\ LastWholeDocs
        /\ Flatten(LastTexts) = Flatten(cb_last.docs)

\* C8 as amended: the chunk texts, concatenated in index order, reproduce the
\* concatenation of the documents the call consumed, a prefix of the shard that
\* is the whole shard when no maximum is configured or fewer chunks than the
\* maximum were built; every chunk is a contiguous run of whole documents.
C8_ChunksReproducePrefix ==
    cb_last.called =>
        /\ LastWholeDocs
        /\ Flatten(LastTexts) = Flatten(SubSeq(cb_last.docs, 1, LastConsumed))
        /\ (cb_max = 0 \/ Len(cb_last.chunks) < cb_max) =>
               LastConsumed = Len(cb_last.docs)

\* the maximum stopped a call before the documents were used up
C8_Witness ==
    /\ cb_last.called
    /\ cb_max # 0
    /\ Len(cb_last.chunks) = cb_max
    /\ LastConsumed < Len(cb_last.docs)

\* C9: every chunk holds at least one document, is shorter than CHUNK_SIZE
\* without its last document, and is at least CHUNK_SIZE long unless it is the
\* last chunk of its call.
C9_ChunkSizeBound ==
    cb_last.called =>
        /\ Len(cb_last.ends) = Len(cb_last.chunks)
        /\ \A j \in 1..Len(cb_last.chunks) :
               /\ LastTo(j) > LastFrom(j)
               /\ Len(cb_last.chunks[j].text) - Len(cb_last.docs[LastTo(j)]) < CHUNK_SIZE
               /\ j < Len(cb_last.chunks) => Len(cb_last.chunks[j].text) >= CHUNK_SIZE

\* a call built a chunk longer than CHUNK_SIZE and another one after it
C9_Witness ==
    /\ cb_last.called
    /\ Len(cb_last.chunks) >= 2
    /\ Len(cb_last.chunks[1].text) > CHUNK_SIZE

\* C10: both scorers return a score in 0..100, and the match is None exactly
\* when the score is 0.
C10_ScorerRange ==
    \A r \in {sc_fast, sc_slow} :
        r # UNSET => /\ r.score \in 0..100
                     /\ r.match = NONE <=> r.score = 0

\* both scorers ran on a pair for which each found a partial match
C10_Witness ==
    /\ sc_fast.score \in 1..99
    /\ sc_slow.score \in 1..99

RECURSIVE ChunksUpTo(_)
\* the chunks main builds from the first f corpus files, start_idx running on
ChunksUpTo(f) ==
    IF f = 0 THEN <<>>
    ELSE LET before == ChunksUpTo(f - 1)
         IN  before \o create_corpus_chunks(corpus[f], num_chunks_to_read, Len(before))

\* the text of the chunk of the run that has index idx
RunChunkText(idx) == ChunksUpTo(Len(corpus))[idx + 1].text

\* q occurs verbatim in text, at some offset
Contains(q, text) ==
    \E i \in 0..(Len(text) - Len(q)) : Slice(text, i, i + Len(q)) = q

\* C11: a test string that occurs verbatim in a chunk gets score 100 and itself
\* as the match from the scorer, and the run that has saved its results reports
\* score 100 and the test string as closest_solution.
C11_VerbatimGives100 ==
    /\ \A o \in observed :
           Contains(o[1], RunChunkText(o[2])) => o[3] = [match |-> o[1], score |-> 100]
    /\ pc = "done" =>
           \A q \in DOMAIN output :
               (\E o \in ObservedFor(q) : Contains(q, RunChunkText(o[2]))) =>
                   /\ output[q].score = 100
                   /\ output[q].closest_solution = q

\* C12: a result whose score equals the best score so far changes neither the
\* score nor closest_solution: whenever a step leaves the score of a query as
\* it was, in the search in progress or in main's all_results, it leaves
\* closest_solution as it was, so the first match of the maximal score is kept.
C12_TiesKeepFirst ==
    [][/\ \A q \in DOMAIN results \cap DOMAIN results' :
              results'[q].score = results[q].score =>
                  results'[q].closest_solution = results[q].closest_solution
       /\ \A q \in DOMAIN all_results :
              all_results'[q].score = all_results[q].score =>
                  all_results'[q].closest_solution = all_results[q].closest_solution]_vars

\* C13: in batch mode the region a worker is attached to has exactly the length
\* of the UTF-8 encoding of the published chunk and decodes to exactly the text
\* of that chunk, so no task ends on a decoding error and every result is the
\* scorer's result for the text of the chunk.
C13_RegionDecodesToChunk ==
    ~test_data.single =>
        \A k \in DOMAIN futures :
            /\ futures[k].why # "UnicodeDecodeError"
            /\ futures[k].st = "attached" =>
                   LET buf == regions[futures[k].region].buf
                   IN  /\ Len(buf) = Len(Encode(RunChunkText(k[2])))
                       /\ Decode(buf) = [ok |-> TRUE, text |-> RunChunkText(k[2])]
            /\ futures[k].st = "done" =>
                   futures[k].res = fast_fuzzy_match(k[1], RunChunkText(k[2]))

\* a worker is attached to the region of a chunk whose encoding is longer than
\* its text, and another worker has already scored that chunk
C13_Witness ==
    /\ ~test_data.single
    /\ \E k \in DOMAIN futures :
           /\ futures[k].st = "attached"
           /\ Len(regions[futures[k].region].buf) > Len(RunChunkText(k[2]))
    /\ \E k \in DOMAIN futures : futures[k].st = "done"

\* C14: in batch mode a failed worker task never ends the run: the coordinator
\* that takes the failed task from as_completed records the no-match result
\* (None, 0) for its test string and chunk, and the run goes on.
C14_TaskFailureIsNoMatch ==
    ~test_data.single =>
        /\ err # "task"
        /\ \A k \in yielded :
               futures[k].st = "failed" =>
                   <<k[1], k[2], [match |-> NONE, score |-> 0]>> \in observed

\* C15: when a corpus file cannot be loaded or parsed, the driver skips it: the
\* step taken at that file leaves all_results and start_idx as they were and
\* moves on to the next corpus file, or to saving the results after the last.
C15_LoadFailureSkipsShard ==
    [][(pc = "load" /\ corpus[file_idx] = UNREADABLE) =>
           /\ all_results' = all_results
           /\ start_idx' = start_idx
           /\ file_idx' = file_idx + 1
           /\ pc' = IF file_idx >= Len(corpus) THEN "save" ELSE "load"]_vars

\* the entries of a chunk history, as a set
Entries(history) == {history[i] : i \in 1..Len(history)}

\* C16: with detailed results, an entry of a query's chunk history is never
\* removed or replaced: every step keeps every entry of all_results[q]'s
\* chunk_results, so the saved history holds the entries of all corpus files.
C16_HistoryOnlyGrows ==
    [][detailed_results =>
           \A q \in DOMAIN all_results :
               Entries(all_results[q].chunk_results)
                   \subseteq Entries(all_results'[q].chunk_results)]_vars

\* the task submitted for key k = <<test string, chunk index>> has completed
\* with a result: the tasks of the files before the current one all have
Completed(k) == k \in DOMAIN futures => futures[k].st = "done"

\* C17: with detailed results, when the run has saved its results, every task
\* submitted for a test string that completed with a match other than None has
\* exactly one entry in the history of that test string, holding its chunk
\* index, match and score, whatever was collected before it completed.
C17_EveryCompletedTaskInHistory ==
    (detailed_results /\ pc = "done") =>
        \A k \in submitted :
            LET res == fast_fuzzy_match(k[1], RunChunkText(k[2]))
                history == output[k[1]].chunk_results
            IN  (Completed(k) /\ res.match # NONE) =>
                    /\ Cardinality({i \in 1..Len(history) :
                                       history[i].chunk_index = k[2]}) = 1
                    /\ [chunk_index |-> k[2], closest_solution |-> res.match,
                        score |-> res.score] \in Entries(history)

\* C18: with detailed results, the chunk history saved for each test string is
\* in increasing order of chunk index, in whatever order the tasks completed.
C18_HistorySorted ==
    (detailed_results /\ pc = "done") =>
        \A q \in DOMAIN output :
            LET history == output[q].chunk_results
            IN  \A i, j \in 1..Len(history) :
                    i < j => history[i].chunk_index < history[j].chunk_index

\* C19: when a maximum number of chunks is configured, the chunks built over
\* all the shards of a run are never more than that maximum.
C19_MaxChunksPerRun ==
    cb_max # 0 => Len(cb_all) <= cb_max

\* C20: a call of main.py's search_test_strings_in_corpus that returns has
\* scored every chunk of its chunk list against every test string, whatever
\* scores of 100 came in earlier chunks.
C20_MainScansEverything ==
    mp_pc = "done" =>
        \A t \in 1..Len(mp_tests) : \A c \in 1..Len(mp_chunks) : <<t, c>> \in mp_scored

\* the score of the best alignment of the pair handed to the scorers
AlignScore == PartialRatioAlignment(sc_in.test_str, sc_in.chunk).score

\* C21: fast_fuzzy_match returns (None, 0) whenever the best alignment score is
\* less than or equal to FUZZ_THRESHOLD, and every non-zero score it returns is
\* strictly greater than FUZZ_THRESHOLD.
C21_StrictThreshold ==
    sc_fast # UNSET =>
        /\ ~ScoreGt(AlignScore, IntScore(FUZZ_THRESHOLD)) =>
               sc_fast = [match |-> NONE, score |-> 0]
        /\ sc_fast.score # 0 => sc_fast.score > FUZZ_THRESHOLD

\* C21 as amended: fast_fuzzy_match returns (None, 0) whenever the best
\* alignment score is less than or equal to FUZZ_THRESHOLD; a non-zero score it
\* returns is the rounding of an alignment score strictly greater than
\* FUZZ_THRESHOLD, so it is greater than or equal to FUZZ_THRESHOLD.
C21_StrictBeforeRounding ==
    sc_fast # UNSET =>
        /\ ~ScoreGt(AlignScore, IntScore(FUZZ_THRESHOLD)) =>
               sc_fast = [match |-> NONE, score |-> 0]
        /\ sc_fast.score # 0 =>
               /\ ScoreGt(AlignScore, IntScore(FUZZ_THRESHOLD))
               /\ sc_fast.score = Round(AlignScore)
               /\ sc_fast.score >= FUZZ_THRESHOLD

\* the alignment scorer accepted an alignment and returned the threshold itself
C21_Witness ==
    /\ sc_fast # UNSET
    /\ sc_fast.match # NONE
    /\ sc_fast.score = FUZZ_THRESHOLD

\* the offsets slow_fuzzy_match scans for the pair handed to the scorers, and
\* the ratio of the window at an offset
SlowOffsets ==
    {i \in 0..(Len(sc_in.chunk) - Len(sc_in.test_str) - 1) :
        i % Stride(sc_in.test_str) = 0}
SlowRatio(i) ==
    Ratio(Slice(sc_in.chunk, i, i + Len(sc_in.test_str)), sc_in.test_str)
\* the scanned offsets with the greatest ratio, if that ratio is above 0
SlowBestOffsets ==
    {i \in SlowOffsets :
        /\ ScoreGt(SlowRatio(i), IntScore(0))
        /\ \A j \in SlowOffsets : ScoreGe(SlowRatio(i), SlowRatio(j))}

\* C22: slow_fuzzy_match returns (None, 0) exactly when the best window score
\* is below the threshold (or no window scores above 0), and otherwise returns
\* a window of the best score with that score, a best score equal to the
\* threshold included.
C22_NonStrictThreshold ==
    sc_slow # UNSET =>
        IF \A i \in SlowBestOffsets : ~ScoreGe(SlowRatio(i), IntScore(FUZZ_THRESHOLD))
        THEN sc_slow = [match |-> NONE, score |-> 0]
        ELSE \E i \in SlowBestOffsets :
                 /\ sc_slow.match = Slice(sc_in.chunk, i, i + Len(sc_in.test_str))
                 /\ sc_slow.score = Round(SlowRatio(i))

\* C22 as amended: the threshold is applied to the rounded score.
\* slow_fuzzy_match returns (None, 0) exactly when the best window score,
\* rounded, is below the threshold (or no window scores above 0); otherwise it
\* returns the rounded best score, which is at least the threshold, with a
\* scanned window whose rounded score is that score.
C22_NonStrictAfterRounding ==
    sc_slow # UNSET =>
        IF \A i \in SlowBestOffsets : Round(SlowRatio(i)) < FUZZ_THRESHOLD
        THEN sc_slow = [match |-> NONE, score |-> 0]
        ELSE /\ sc_slow.score >= FUZZ_THRESHOLD
             /\ \A i \in SlowBestOffsets : sc_slow.score = Round(SlowRatio(i))
             /\ \E i \in SlowOffsets :
                    /\ sc_slow.match = Slice(sc_in.chunk, i, i + Len(sc_in.test_str))
                    /\ Round(SlowRatio(i)) = sc_slow.score

\* the sliding-window scorer accepted, with the threshold as its score, a
\* best window whose score is below the threshold
C22_Witness ==
    /\ sc_slow # UNSET
    /\ sc_slow.match # NONE
    /\ sc_slow.score = FUZZ_THRESHOLD
    /\ \A i \in SlowOffsets : ~ScoreGe(SlowRatio(i), IntScore(FUZZ_THRESHOLD))

\* the stride-aligned offsets at which a window of the length of the test
\* string fits entirely in the chunk, the last one included
FittingOffsets ==
    {i \in 0..(Len(sc_in.chunk) - Len(sc_in.test_str)) :
        i % Stride(sc_in.test_str) = 0}

\* C23: slow_fuzzy_match compares the test string with the window at every
\* stride-aligned offset at which the window fits entirely in the chunk and
\* returns the best of them: its score is at least the rounded score of every
\* such window that reaches the threshold, so it is 100 when the chunk equals
\* the test string or ends with it at an aligned offset.
C23_ScansEveryFittingWindow ==
    sc_slow # UNSET =>
        \A i \in FittingOffsets :
            Round(SlowRatio(i)) >= FUZZ_THRESHOLD =>
                sc_slow.score >= Round(SlowRatio(i))

\* C24: the corpus files are processed in their declared order, one after the
\* other: the chunks searched are those of the file the loop stands at, and the
\* loop moves on by one file, in a step that merges the results of a search
\* all of whose tasks were collected or drained.  In batch mode the chunks are
\* published in increasing order of chunk index over all files, none passed
\* over, and a chunk gets its tasks only after every test string has its
\* result for every chunk before it.
C24_FixedOrder ==
    /\ [](/\ \A r \in 1..Len(regions) : regions[r].chunk = r - 1
          /\ ~test_data.single =>
                 \A k \in submitted : \A j \in 0..(k[2] - 1) : \A q \in Queries :
                     \E o \in observed : o[1] = q /\ o[2] = j)
    /\ [][/\ file_idx' \in {file_idx, file_idx + 1}
          /\ (pc = "load" /\ pc' \in {"collect", "publish"}) =>
                 corpus_chunks' = create_corpus_chunks(corpus[file_idx],
                                      num_chunks_to_read, start_idx)
          /\ (file_idx' = file_idx + 1 \/ (pc # "load" /\ pc' = "load")) =>
                 /\ file_idx' = file_idx + 1
                 /\ pc \in {"collect", "drain", "publish"}
                 /\ \A k \in DOMAIN futures : Finished(k)
                 /\ \A q \in Queries :
                        all_results'[q] = UpdateEntry(all_results[q], results[q])]_vars

\* a batch run over two corpus files has ended after publishing three chunks
\* or more
C24_Witness ==
    /\ ~test_data.single
    /\ pc = "done"
    /\ Len(corpus) = 2
    /\ file_idx = 3
    /\ Len(regions) >= 3


\* the chunk indices a chunk history holds an entry for
Recorded(chunk_results) == {chunk_results[i].chunk_index : i \in 1..Len(chunk_results)}

\* the chunk positions both searches collected for the first test string and
\* whose task returned (None, 0)
NoMatchInBoth ==
    {j \in tp_scollected :
        /\ (j < tp_bci \/ (j = tp_bci /\ 1 \in tp_bcollected))
        /\ top_fast_fuzzy_match(tp_tests[1], tp_chunks[j].text) = [match |-> NONE, score |-> 0]}

\* C25: a chunk whose task returned (None, 0) for a query is recorded in the
\* chunk history of the single-query search exactly if it is recorded in the
\* chunk history of the batch search of the same variant.
C25_SameZeroPolicy ==
    \A j \in NoMatchInBoth :
        tp_chunks[j].idx \in Recorded(tp_sres.chunk_results)
            <=> tp_chunks[j].idx \in Recorded(tp_bres[tp_tests[1]].chunk_results)

\* both searches returned, and one of the chunks they scored gave no match
C25_Witness ==
    /\ tp_spc = "done" /\ tp_bpc = "done"
    /\ NoMatchInBoth # {}


\* C26: every chunk a call of create_corpus_chunks returns has a text of
\* length at least 1, whatever the document list is.
C26_NoEmptyChunk ==
    cb_last.called =>
        \A j \in 1..Len(cb_last.chunks) : Len(cb_last.chunks[j].text) >= 1


\* C27: whenever the batch search has finished, by returning or by the
\* exception of a worker task leaving it, no region it created is resident.
C27_NoRegionLeftBehind ==
    (/\ ~test_data.single
     /\ \/ pc \in {"load", "save", "done"}
        \/ pc = "aborted" /\ err = "task")
    => ResidentRegions = {}


\* C28: two batch runs on one host do not interfere through the shared
\* buffer: no publish of a run fails with FileExistsError, and every worker
\* reads a region its own run published.
C28_RunsDoNotInterfere ==
    /\ \A r \in Runs : tw_err[r] # "FileExistsError"
    /\ \A rd \in tw_reads : rd[1] = rd[2]


RECURSIVE ExpectedBatch(_, _)
\* the results entry of query q after the first n chunks of the shard, merged
\* in the order of the chunks
ExpectedBatch(q, n) ==
    IF n = 0 THEN NewResult
    ELSE MergeResult(ExpectedBatch(q, n - 1), corpus_chunks[n].idx,
                     fast_fuzzy_match(q, corpus_chunks[n].text))

\* C29: in batch mode the results entry of every query (score,
\* closest_solution and chunk history) is a function of the queries and the
\* chunks alone: after any number of collected tasks, in whatever order the
\* tasks of a chunk completed, it is the merge of the chunks collected for the
\* query, in the order of the chunks.
C29_OrderIndependent ==
    (~test_data.single /\ pc \in {"publish", "write", "submit", "collect"}) =>
        \A q \in Queries :
            results[q] = ExpectedBatch(q,
                IF pc = "collect" /\ <<q, corpus_chunks[ci].idx>> \in yielded
                THEN ci ELSE ci - 1)

\* with the history on, the task of the second query of the second chunk has
\* been collected before the task of the first query, and both queries have a
\* match in the history
C29_Witness ==
    /\ ~test_data.single /\ detailed_results
    /\ pc = "collect" /\ ci = 2
    /\ Len(test_strings) = 2
    /\ yielded = {<<test_strings[2], corpus_chunks[ci].idx>>}
    /\ \A q \in Queries : results[q].score > 0


\* C30: when no task fails and the process and its workers keep running, a
\* batch run eventually has every region it published released and eventually
\* reaches the final state with the results written; a single-query run
\* eventually leaves each search it entered, with every submitted task finished.
C30_RunTerminates ==
    /\ ~test_data.single => <>(pc = "done" /\ output = all_results /\ ResidentRegions = {})
    /\ (~test_data.single /\ ResidentRegions # {}) ~> (ResidentRegions = {})
    /\ (test_data.single /\ pc \in {"collect", "drain"})
           ~> (pc \in {"load", "save"} /\ \A k \in DOMAIN futures : Finished(k))

====
